---- MODULE Spec2Model ----
(***************************************************************************)
(* Model of synql (src/synql/crr.py): a SQLite database turned into a      *)
(* conflict-free replicated relation.  The user schema of the model is     *)
(*                                                                         *)
(*   CREATE TABLE X(x int PRIMARY KEY);                                    *)
(*   CREATE TABLE Y(y integer PRIMARY KEY,                                 *)
(*                  x int CONSTRAINT fk REFERENCES X(x)                    *)
(*                        ON DELETE <on_delete> ON UPDATE <on_update>);    *)
(*                                                                         *)
(* X.x is a replicated column covered by the uniqueness index of X, Y.y    *)
(* is an alias of the row handle and Y.x is covered by the foreign key     *)
(* fk.  A connection runs with PRAGMA foreign_keys ON or OFF (the tests of *)
(* the repository open their first replica with ON and the others with     *)
(* the default, OFF) and recursive triggers off.  A database file is a     *)
(* record; a SQL statement is an operator from records to records; a       *)
(* script is the composition of its statements.                            *)
(***************************************************************************)
EXTENDS Integers, Sequences, FiniteSets, TLC

VARIABLES dbs, schema, conf, limit, hist, calls

vars == <<dbs, schema, conf, limit, hist, calls>>

(***************************************************************************)
(* Bounds of the model.                                                    *)
(***************************************************************************)
MaxOps == 2
MaxPulls == 1
MaxVal == 2
MaxExchanges == 1
MaxHist == 3
MaxWall == 3

(***************************************************************************)
(* Values.  NULL is 0, the null row id is <<0, 0>>.                        *)
(***************************************************************************)
NULL == 0
NullRow == <<0, 0>>
Vals == 1..MaxVal
Tables == <<"X", "Y">>
TableSet == {"X", "Y"}
Replicas == {"a", "b"}
Other(p) == IF p = "a" THEN "b" ELSE "a"
PeerOf == [a |-> 1, b |-> 2]

SetMax(S) == CHOOSE m \in S : \A n \in S : n <= m
Max(m, n) == IF m >= n THEN m ELSE n

\* Lexicographic order on labelled timestamps (ts, peer).
TsGT(t1, p1, t2, p2) == t1 > t2 \/ (t1 = t2 /\ p1 > p2)
RowGT(r1, r2) == TsGT(r1[1], r1[2], r2[1], r2[2])

(***************************************************************************)
(* Static metadata written by init.                                        *)
(***************************************************************************)
CASCADE == 0
RESTRICT == 1
SET_NULL == 2
SET_DEFAULT == 3
NO_ACTION == 4
Supported == {CASCADE, RESTRICT, SET_NULL, NO_ACTION}
Declared == Supported \cup {SET_DEFAULT}

\* Config: the configurations of init
Config == [physical_clock : BOOLEAN, no_action_is_cascade : BOOLEAN]

\* _normalize_fk_action, for an action that it does not reject
normalize_fk_action(action, cf) ==
    IF action = NO_ACTION
    THEN (IF cf.no_action_is_cascade THEN CASCADE ELSE RESTRICT)
    ELSE action

\* _synql_uniqueness: X.x is the only replicated column in an index.
synql_uniqueness == {[field |-> "x", tbl_index |-> "X_pk"]}

\* _synql_fk: one row, for the foreign key of Y.
synql_fk(sch, cf) ==
    {[field |-> "fk", foreign_index |-> "X_pk",
      on_delete |-> normalize_fk_action(sch.on_delete, cf),
      on_update |-> normalize_fk_action(sch.on_update, cf)]}

(***************************************************************************)
(* A database file and the connection to it.  fk is PRAGMA foreign_keys,   *)
(* wall is the reading of the wall clock by julianday('now'), attached     *)
(* tells whether a database is attached as extern, failed whether the last *)
(* statement raised.  installed names what the scripts of init created,    *)
(* local_clock tells whether the trigger _synql_local_clock exists and     *)
(* fkscan lists the operations (ts, peer) of the entries of _synql_fklog   *)
(* in the order of a scan of the table, which is the order of their        *)
(* insertion.                                                              *)
(***************************************************************************)
\* A database file that holds the user schema only
database(fk) == [peer |-> 0, fk |-> fk, wall |-> 0, installed |-> {}, failed |-> FALSE]

Fail(S) == [S EXCEPT !.failed = TRUE]

\* A script stops at the first statement that fails.
Then(S, stmt(_)) == IF S.failed THEN S ELSE stmt(S)

\* _CREATE_TABLE_CONTEXT + _CREATE_REPLICATION_TABLES + _CREATE_LOCAL_TABLES_VIEWS
create_tables(S) ==
    [peer |-> 0, fk |-> S.fk, wall |-> S.wall, installed |-> {"tables", "views"},
     failed |-> FALSE, local_clock |-> TRUE, synql_fk |-> {},
     ts |-> 0, is_merging |-> 0, attached |-> FALSE,
     context |-> [p \in {} |-> 0],
     id |-> {}, id_undo |-> {}, log |-> {}, fklog |-> {}, fkscan |-> <<>>,
     undolog |-> {},
     idT |-> [X |-> {}, Y |-> {}],
     tbl |-> [X |-> {}, Y |-> {}]]

\* _synql_triggers: the script is computed, which fails on an action that
\* _normalize_fk_action rejects, and then run.
synql_triggers(S, sch, cf) ==
    IF SET_DEFAULT \in {sch.on_delete, sch.on_update} THEN Fail(S)
    ELSE [S EXCEPT !.installed = @ \cup {"triggers"}, !.synql_fk = synql_fk(sch, cf)]

\* DROP TRIGGER _synql_local_clock, when the clock is not physical
drop_local_clock(S, cf) ==
    IF cf.physical_clock THEN S ELSE [S EXCEPT !.local_clock = FALSE]

\* INSERT OR IGNORE INTO <into> SELECT peer, 0 FROM <from>
add_missing_peers(into, from) ==
    [p \in DOMAIN into \cup DOMAIN from |-> IF p \in DOMAIN into THEN into[p] ELSE 0]

\* _allocate_id with a replica identifier
allocate_id(S, peer) ==
    IF peer \in DOMAIN S.context THEN Fail([S EXCEPT !.peer = peer])
    ELSE [S EXCEPT !.peer = peer,
                   !.context = add_missing_peers(@, [p \in {peer} |-> 0])]

\* init(db, replica_id = peer, conf = cf)
init(S, sch, cf, peer) ==
    Then(Then(Then(create_tables(S),
                   LAMBDA s : synql_triggers(s, sch, cf)),
              LAMBDA s : drop_local_clock(s, cf)),
         LAMBDA s : allocate_id(s, peer))

(***************************************************************************)
(* Shadow relations: lookups.                                              *)
(***************************************************************************)
\* ifnull(undo.ul, 0) of _synql_log_extra / _synql_fklog_extra, for a row
row_ul(S, row) ==
    IF \E u \in S.id_undo : u.row = row
    THEN (CHOOSE u \in S.id_undo : u.row = row).ul ELSE 0

\* ifnull(undo.ul, 0) of the undo entry of an operation (ts, peer)
op_ul(S, ts, peer) ==
    IF \E u \in S.undolog : u.obj = <<ts, peer>>
    THEN (CHOOSE u \in S.undolog : u.obj = <<ts, peer>>).ul ELSE 0

\* undo.ts and undo.peer of _synql_log_extra (NULL when there is no undo entry)
op_ul_stamp(S, ts, peer) ==
    IF \E u \in S.undolog : u.obj = <<ts, peer>>
    THEN LET u == CHOOSE u \in S.undolog : u.obj = <<ts, peer>> IN <<u.ts, u.peer>>
    ELSE NullRow

\* The row id of a local row handle in _synql_id_<tbl> (NullRow when unmapped).
RowOf(S, t, rowid) ==
    IF \E e \in S.idT[t] : e.rowid = rowid
    THEN (CHOOSE e \in S.idT[t] : e.rowid = rowid).row ELSE NullRow

\* Row handle SQLite gives to a row inserted without one: max(rowid) + 1.
NextRowid(rows) == IF rows = {} THEN 1 ELSE SetMax({r.rowid : r \in rows}) + 1

(***************************************************************************)
(* Clock.  UPDATE _synql_local SET ts = ts + 1, then the trigger           *)
(* _synql_local_clock when it exists.                                      *)
(***************************************************************************)
\* Trigger _synql_local_clock: AFTER UPDATE OF ts WHEN (OLD.ts + 1 = NEW.ts)
synql_local_clock(S, old) ==
    IF S.local_clock /\ old + 1 = S.ts THEN [S EXCEPT !.ts = Max(@, S.wall)] ELSE S

bump(S) == synql_local_clock([S EXCEPT !.ts = @ + 1], S.ts)

\* UPDATE _synql_context SET ts = _synql_local.ts ... WHERE peer = local.peer
context_local(S) ==
    [S EXCEPT !.context =
        [p \in DOMAIN @ |-> IF p = S.peer THEN S.ts ELSE @[p]]]

\* A delete trigger that keeps the undo entry that the row already has, where
\* the trigger adds one to its undo length and stamps it anew.
synql_delete_id_once(S, row) ==
    IF S.is_merging = 1 THEN S
    ELSE LET S1 == context_local(bump(S))
         IN IF \E u \in S1.id_undo : u.row = row THEN S1
            ELSE [S1 EXCEPT !.id_undo = @ \cup
                     {[row |-> row, ul |-> 1, ts |-> S1.ts, peer |-> S1.peer]}]

(***************************************************************************)
(* Trigger _synql_delete_id_<T>: AFTER DELETE ON _synql_id_<T>, when not   *)
(* merging: bump, advance the context, upsert the undo entry of the row.   *)
(***************************************************************************)
synql_delete_id(S, row) ==
    IF S.is_merging = 1 THEN S
    ELSE LET S1 == context_local(bump(S))
             old == {u \in S1.id_undo : u.row = row}
             ul == IF old = {} THEN 1 ELSE (CHOOSE u \in old : TRUE).ul + 1
         IN [S1 EXCEPT !.id_undo = (@ \ old) \cup
                {[row |-> row, ul |-> ul, ts |-> S1.ts, peer |-> S1.peer]}]

\* DELETE FROM "_synql_id_<T>" WHERE rowid = <rowid>, with its trigger.
delete_id(S, t, rowid) ==
    LET m == {e \in S.idT[t] : e.rowid = rowid}
    IN IF m = {} THEN S
       ELSE synql_delete_id([S EXCEPT !.idT[t] = @ \ m], (CHOOSE e \in m : TRUE).row)

\* Target of a foreign key value: the row id mapped to the row of X whose x
\* equals the value (the LEFT JOIN ... AS target of fklog_insertions/updates).
target(S, v) ==
    LET m == {r \in S.tbl["X"] : v # NULL /\ r.x = v}
    IN IF m = {} THEN NullRow
       ELSE RowOf(S, "X", (CHOOSE r \in m : \A q \in m : r.rowid <= q.rowid).rowid)

\* INSERT INTO _synql_fklog of one entry
insert_fklog(S, e) ==
    [S EXCEPT !.fklog = @ \cup {e}, !.fkscan = Append(@, <<e.ts, e.peer>>)]

\* An insert trigger that stamps what it writes with the clock as it is,
\* where the trigger first adds one to it.
synql_log_insert_stale(S, t, rowid, v) ==
    IF S.is_merging = 1 THEN S
    ELSE LET S1 == context_local(delete_id(S, t, rowid))
             row == <<S1.ts, S1.peer>>
             S2 == [S1 EXCEPT !.idT[t] = @ \cup {[rowid |-> rowid, row |-> row]},
                              !.id = @ \cup {[row |-> row, tbl |-> t]}]
         IN IF t = "X"
            THEN [S2 EXCEPT !.log = @ \cup {[ts |-> S1.ts, peer |-> S1.peer, row |-> row,
                                             field |-> "x", val |-> v]}]
            ELSE insert_fklog(S2, [ts |-> S1.ts, peer |-> S1.peer, row |-> row,
                                   field |-> "fk", frow |-> target(S1, v)])

(***************************************************************************)
(* Trigger _synql_log_insert_<T>: AFTER INSERT ON <T>, when not merging.   *)
(***************************************************************************)
synql_log_insert(S, t, rowid, v) ==
    IF S.is_merging = 1 THEN S
    ELSE LET S0 == delete_id(S, t, rowid)
             S1 == context_local(bump(S0))
             row == <<S1.ts, S1.peer>>
             S2 == [S1 EXCEPT !.idT[t] = @ \cup {[rowid |-> rowid, row |-> row]},
                              !.id = @ \cup {[row |-> row, tbl |-> t]}]
         IN IF t = "X"
            THEN [S2 EXCEPT !.log = @ \cup {[ts |-> S1.ts, peer |-> S1.peer, row |-> row,
                                             field |-> "x", val |-> v]}]
            ELSE insert_fklog(S2, [ts |-> S1.ts, peer |-> S1.peer, row |-> row,
                                   field |-> "fk", frow |-> target(S1, v)])

(***************************************************************************)
(* fklog_updates of trigger _synql_log_update_Y for the row handle rowid   *)
(* whose x changes from old to new.                                        *)
(***************************************************************************)
fklog_updates(S, rowid, old, new) ==
    LET cur == RowOf(S, "Y", rowid)
        tgt == target(S, new)
        mine == {e \in S.fklog : e.row = cur /\ e.field = "fk"}
        \* ORDER BY ts, peer LIMIT 1
        first == {e \in mine : \A o \in mine : ~TsGT(e.ts, e.peer, o.ts, o.peer)}
        is_cascade == \E e \in first : tgt # NullRow /\ e.frow = tgt
        not_set_null == new # NULL \/ (\E r \in S.tbl["X"] : old # NULL /\ r.x = old)
    IN IF cur # NullRow /\ ~is_cascade /\ not_set_null
       THEN insert_fklog(S, [ts |-> S.ts, peer |-> S.peer, row |-> cur,
                             field |-> "fk", frow |-> tgt])
       ELSE S

\* Trigger _synql_log_update_Y: AFTER UPDATE OF x ON Y, when not merging.
synql_log_update_Y(S, rowid, old, new) ==
    IF S.is_merging = 1 THEN S
    ELSE fklog_updates(context_local(bump(S)), rowid, old, new)

\* A trigger that takes the row under its new handle for a new row, where
\* the trigger keeps the identity of the row.
synql_log_update_rowid_new(S, t, old, new) ==
    LET S1 == context_local(bump(S))
        row == <<S1.ts, S1.peer>>
    IN [S1 EXCEPT !.idT[t] = {e \in @ : e.rowid # old} \cup {[rowid |-> new, row |-> row]},
                  !.id = @ \cup {[row |-> row, tbl |-> t]}]

\* Trigger _synql_log_update_rowid_<T>_rowid: AFTER UPDATE OF the aliases of
\* rowid ON <T>, merging or not: the mapping of the row follows its handle.
synql_log_update_rowid(S, t, old, new) ==
    IF \E e \in S.idT[t] : e.rowid = new /\ new # old THEN Fail(S)
    ELSE [S EXCEPT !.idT[t] = {IF e.rowid = old THEN [e EXCEPT !.rowid = new] ELSE e
                                : e \in @}]

\* UPDATE <t> SET rowid = h WHERE rowid = <rowid>
update_rowid(S, t, rowid, h) ==
    IF \E r \in S.tbl[t] : r.rowid # rowid /\ r.rowid = h THEN Fail(S)
    ELSE LET S1 == [S EXCEPT !.tbl[t] = {IF r.rowid = rowid THEN [r EXCEPT !.rowid = h]
                                          ELSE r : r \in @}]
             R == synql_log_update_rowid(S1, t, rowid, h)
         IN IF R.failed THEN Fail(S) ELSE R

\* Trigger _synql_log_update_X: AFTER UPDATE OF x ON X, when not merging.
synql_log_update_X(S, rowid, old, new) ==
    IF S.is_merging = 1 THEN S
    ELSE LET S1 == context_local(bump(S))
             cur == RowOf(S1, "X", rowid)
         IN IF cur # NullRow /\ old # new
            THEN [S1 EXCEPT !.log = @ \cup {[ts |-> S1.ts, peer |-> S1.peer,
                                             row |-> cur, field |-> "x", val |-> new]}]
            ELSE S1

(***************************************************************************)
(* The embedded database: statements on the user tables, with the triggers *)
(* of init fired and, when the connection has foreign_keys = ON, the       *)
(* foreign key of Y enforced.  A statement that violates a constraint      *)
(* changes nothing and raises: the state is marked failed.                 *)
(***************************************************************************)
\* The rows of a table in the order of a table scan (ascending row handle).
RECURSIVE Scan(_)
Scan(rows) ==
    IF rows = {} THEN <<>>
    ELSE LET r == CHOOSE r \in rows : \A q \in rows : r.rowid <= q.rowid
         IN <<r>> \o Scan(rows \ {r})

\* Rows of Y whose foreign key column holds v.
Children(S, v) == {r \in S.tbl["Y"] : v # NULL /\ r.x = v}

\* The children the engine acts on when a parent key v goes away.
Referencing(S, v) == IF S.fk THEN Scan(Children(S, v)) ELSE <<>>

\* Trigger _synql_delete_<T>: AFTER DELETE ON <T>.
synql_delete(S, t, rowid) == delete_id(S, t, rowid)

\* Deletion of one row of Y by the engine, with its trigger.
delete_row_Y(S, rowid) ==
    synql_delete([S EXCEPT !.tbl["Y"] = {r \in @ : r.rowid # rowid}], "Y", rowid)

\* Rewrite of Y.x of one row by the engine, with its trigger.
update_row_Y(S, rowid, new) ==
    LET old == (CHOOSE r \in S.tbl["Y"] : r.rowid = rowid).x
    IN synql_log_update_Y(
           [S EXCEPT !.tbl["Y"] = {IF r.rowid = rowid THEN [r EXCEPT !.x = new] ELSE r
                                   : r \in @}],
           rowid, old, new)

\* Foreign key action on the children in cs (a scan of Y), one after the other.
RECURSIVE fk_action(_, _, _, _)
fk_action(S, action, cs, new) ==
    IF cs = <<>> THEN S
    ELSE LET S1 == IF action = CASCADE /\ new = NULL
                   THEN delete_row_Y(S, Head(cs).rowid)
                   ELSE update_row_Y(S, Head(cs).rowid,
                                     IF action = SET_NULL THEN NULL ELSE new)
         IN fk_action(S1, action, Tail(cs), new)

\* INSERT INTO X VALUES(v)
insert_X(S, v) ==
    IF \E r \in S.tbl["X"] : v # NULL /\ r.x = v THEN Fail(S)
    ELSE LET rowid == NextRowid(S.tbl["X"])
         IN synql_log_insert([S EXCEPT !.tbl["X"] = @ \cup {[rowid |-> rowid, x |-> v]}],
                             "X", rowid, v)

\* INSERT INTO Y(x) VALUES(v)
insert_Y(S, v) ==
    IF S.fk /\ v # NULL /\ ~\E r \in S.tbl["X"] : r.x = v THEN Fail(S)
    ELSE LET rowid == NextRowid(S.tbl["Y"])
         IN synql_log_insert([S EXCEPT !.tbl["Y"] = @ \cup {[rowid |-> rowid, x |-> v]}],
                             "Y", rowid, v)

\* UPDATE X SET x = v WHERE rowid = <rowid>
update_X(S, sch, rowid, v) ==
    LET old == (CHOOSE r \in S.tbl["X"] : r.rowid = rowid).x
        cs == Referencing(S, old)
        S1 == [S EXCEPT !.tbl["X"] = {IF r.rowid = rowid THEN [r EXCEPT !.x = v] ELSE r
                                      : r \in @}]
    IN IF \E r \in S.tbl["X"] : r.rowid # rowid /\ v # NULL /\ r.x = v THEN Fail(S)
       ELSE IF old = v \/ cs = <<>> THEN synql_log_update_X(S1, rowid, old, v)
       ELSE IF sch.on_update \in {RESTRICT, NO_ACTION} THEN Fail(S)
       ELSE synql_log_update_X(fk_action(S1, sch.on_update, cs, v), rowid, old, v)

\* UPDATE Y SET x = v WHERE rowid = <rowid>
update_Y(S, rowid, v) ==
    IF S.fk /\ v # NULL /\ ~\E r \in S.tbl["X"] : r.x = v THEN Fail(S)
    ELSE update_row_Y(S, rowid, v)

\* DELETE FROM X WHERE rowid = <rowid>
delete_X(S, sch, rowid) ==
    LET old == (CHOOSE r \in S.tbl["X"] : r.rowid = rowid).x
        cs == Referencing(S, old)
        S1 == [S EXCEPT !.tbl["X"] = {r \in @ : r.rowid # rowid}]
    IN IF cs = <<>> THEN synql_delete(S1, "X", rowid)
       ELSE IF sch.on_delete \in {RESTRICT, NO_ACTION} THEN Fail(S)
       ELSE synql_delete(fk_action(S1, sch.on_delete, cs, NULL), "X", rowid)

\* DELETE FROM Y WHERE rowid = <rowid>
delete_Y(S, rowid) == delete_row_Y(S, rowid)

(***************************************************************************)
(* Views.                                                                  *)
(***************************************************************************)
Even(n) == n % 2 = 0
Odd(n) == n % 2 = 1

\* The undo entry of a row, or of an operation, as a set of at most one entry.
row_undo(S, row) == {u \in S.id_undo : u.row = row}
op_undo(S, ts, peer) == {u \in S.undolog : u.obj = <<ts, peer>>}

\* _synql_log_extra
synql_log_extra(S) ==
    {[ts |-> l.ts, peer |-> l.peer, row |-> l.row, field |-> l.field, val |-> l.val,
      frow |-> NullRow,
      ul |-> op_ul(S, l.ts, l.peer), ul_stamp |-> op_ul_stamp(S, l.ts, l.peer),
      row_ul |-> row_ul(S, l.row)] : l \in S.log}

\* _synql_log_effective
synql_log_effective(S) ==
    LET extra == synql_log_extra(S)
    IN {l \in extra : Even(l.ul) /\ ~\E self \in extra :
            /\ self.row = l.row /\ self.field = l.field
            /\ TsGT(self.ts, self.peer, l.ts, l.peer) /\ Even(self.ul)}

\* _synql_fklog_extra
synql_fklog_extra(S, sch) ==
    LET fk(l) == CHOOSE f \in S.synql_fk : f.field = l.field
    IN {[ts |-> l.ts, peer |-> l.peer, row |-> l.row, field |-> l.field, val |-> NULL,
         frow |-> l.frow,
         ul |-> op_ul(S, l.ts, l.peer), ul_stamp |-> op_ul_stamp(S, l.ts, l.peer),
         row_ul |-> row_ul(S, l.row),
         on_update |-> fk(l).on_update, on_delete |-> fk(l).on_delete,
         foreign_index |-> fk(l).foreign_index] : l \in S.fklog}

\* _synql_fklog_effective
synql_fklog_effective(S, sch) ==
    LET extra == synql_fklog_extra(S, sch)
    IN {l \in extra : Even(l.ul) /\ ~\E self \in extra :
            /\ Even(self.ul) /\ self.row = l.row /\ self.field = l.field
            /\ TsGT(self.ts, self.peer, l.ts, l.peer)}

\* Is the field covered by the uniqueness index tbl_index?
uniq(field, tbl_index) ==
    \E u \in synql_uniqueness : u.field = field /\ u.tbl_index = tbl_index

\* x.ts > ctx.ts AND x.peer = ctx.peer, for some row ctx of a context
After(ctx, ts, peer) == peer \in DOMAIN ctx /\ ts > ctx[peer]

(***************************************************************************)
(* _PULL_EXTERN.  E is the attached database.                              *)
(***************************************************************************)
\* ATTACH DATABASE ... AS extern; UPDATE _synql_local SET is_merging = 1
attach(S) ==
    IF S.attached THEN Fail(S) ELSE [S EXCEPT !.attached = TRUE, !.is_merging = 1]

\* UPDATE _synql_local SET ts = max(_synql_local.ts, max(ctx.ts)) + 1
update_clock(S, E) ==
    synql_local_clock(
        [S EXCEPT !.ts = SetMax({S.ts} \cup {E.context[p] : p \in DOMAIN E.context}) + 1],
        S.ts)

\* INSERT INTO _synql_id SELECT ... (primary key: the row id)
pull_id(S, E) ==
    LET new == {i \in E.id : After(S.context, i.row[1], i.row[2])}
    IN IF \E i \in new : \E j \in S.id : j.row = i.row THEN Fail(S)
       ELSE [S EXCEPT !.id = @ \cup new]

\* Rows known to _synql_id: the parents of the foreign keys of the shadow tables.
Known(S, row) == ~S.fk \/ \E i \in S.id : i.row = row

\* An import of the log that keeps one entry per column of a row: the
\* imported entry replaces the entries already there.
pull_log_replace(S, E) ==
    LET new == {l \in E.log : After(S.context, l.ts, l.peer)}
    IN [S EXCEPT !.log = {m \in @ : ~\E l \in new : l.row = m.row /\ l.field = m.field}
                             \cup new]

\* INSERT INTO _synql_log SELECT ...
pull_log(S, E) ==
    LET new == {l \in E.log : After(S.context, l.ts, l.peer)}
    IN IF \/ \E l \in new : ~Known(S, l.row)
          \/ \E l \in new : \E m \in S.log :
                /\ <<m.row, m.field, m.ts, m.peer>> = <<l.row, l.field, l.ts, l.peer>>
       THEN Fail(S)
       ELSE [S EXCEPT !.log = @ \cup new]

\* An import of the foreign-key log that keeps the remote entries newer than
\* the clock of the local replica, where the script compares with its context.
pull_fklog_clock(S, E) ==
    LET new == {l \in E.fklog : l.ts > S.ts}
    IN [S EXCEPT !.fklog = @ \cup new,
                 !.fkscan = @ \o SelectSeq(E.fkscan,
                                LAMBDA k : \E l \in new : <<l.ts, l.peer>> = k)]

\* INSERT INTO _synql_fklog SELECT ...
pull_fklog(S, E) ==
    LET new == {l \in E.fklog : After(S.context, l.ts, l.peer)}
    IN IF \/ \E l \in new : ~Known(S, l.row) \/ (l.frow # NullRow /\ ~Known(S, l.frow))
          \/ \E l \in new : \E m \in S.fklog :
                /\ <<m.row, m.field, m.ts, m.peer>> = <<l.row, l.field, l.ts, l.peer>>
       THEN Fail(S)
       ELSE [S EXCEPT !.fklog = @ \cup new,
                      !.fkscan = @ \o SelectSeq(E.fkscan,
                                     LAMBDA k : \E l \in new : <<l.ts, l.peer>> = k)]

\* An import of the undo entries of the rows that only updates the entries
\* that the local replica holds, where the script also inserts the others.
pull_id_undo_held(S, E) ==
    LET new == {u \in E.id_undo : After(S.context, u.ts, u.peer)}
        wins == {u \in new : /\ \E o \in S.id_undo : o.row = u.row
                             /\ \A o \in S.id_undo : o.row = u.row => o.ul < u.ul}
    IN [S EXCEPT !.id_undo = {o \in @ : ~\E u \in wins : u.row = o.row} \cup wins]

\* INSERT INTO _synql_id_undo SELECT ... ON CONFLICT DO UPDATE ... WHERE ul < excluded.ul
pull_id_undo(S, E) ==
    LET new == {u \in E.id_undo : After(S.context, u.ts, u.peer)}
        wins == {u \in new : \A o \in row_undo(S, u.row) : o.ul < u.ul}
    IN IF \E u \in new : ~Known(S, u.row) THEN Fail(S)
       ELSE [S EXCEPT !.id_undo = {o \in @ : ~\E u \in wins : u.row = o.row} \cup wins]

\* INSERT INTO _synql_undolog SELECT ... ON CONFLICT DO UPDATE ... WHERE ul < excluded.ul
pull_undolog(S, E) ==
    LET new == {u \in E.undolog : After(S.context, u.ts, u.peer)}
        wins == {u \in new : \A o \in op_undo(S, u.obj[1], u.obj[2]) : o.ul < u.ul}
    IN [S EXCEPT !.undolog = {o \in @ : ~\E u \in wins : u.obj = o.obj} \cup wins]

(***************************************************************************)
(* _CONFLICT_RESOLUTION.  Every statement reads the state it starts from   *)
(* and stamps what it writes with the local clock.                         *)
(***************************************************************************)
\* The two operations are concurrent: each is unknown to the other replica.
concurrent(S, E, log, fklog) ==
    \/ After(S.context, log.ts, log.peer) /\ After(E.context, fklog.ts, fklog.peer)
    \/ After(E.context, log.ts, log.peer) /\ After(S.context, fklog.ts, fklog.peer)

\* INSERT OR REPLACE INTO _synql_id_undo(ts, peer, row_ts, row_peer, ul): ups
\* maps the rows to write to their new undo length.
replace_id_undo(S, ups) ==
    [S EXCEPT !.id_undo = {o \in @ : o.row \notin DOMAIN ups} \cup
        {[row |-> r, ul |-> ups[r], ts |-> S.ts, peer |-> S.peer] : r \in DOMAIN ups}]

\* A. ON UPDATE RESTRICT
on_update_restrict(S, E, sch) ==
    LET hit == {log \in synql_log_extra(S) : Even(log.ul) /\
                  \E fklog \in synql_fklog_effective(S, sch) :
                     /\ \/ log.ts > fklog.ts
                        \/ (log.ts = fklog.ts /\ log.peer = fklog.peer)
                        \/ concurrent(S, E, log, fklog)
                     /\ fklog.frow # NullRow /\ log.row = fklog.frow
                     /\ uniq(log.field, fklog.foreign_index)
                     /\ fklog.on_update = RESTRICT}
        objs == {<<log.ts, log.peer>> : log \in hit}
    IN [S EXCEPT !.undolog = {o \in @ : o.obj \notin objs} \cup
          {[obj |-> <<log.ts, log.peer>>, ul |-> log.ul + 1, ts |-> S.ts, peer |-> S.peer]
             : log \in hit}]

\* _synql_restrict_refs
RECURSIVE synql_restrict_refs(_, _)
synql_restrict_refs(eff, refs) ==
    LET step == {tgt.frow : tgt \in
                   {t \in eff : t.row \in refs /\ t.on_delete = CASCADE}}
    IN IF step \subseteq refs THEN refs ELSE synql_restrict_refs(eff, refs \cup step)

\* B. ON DELETE RESTRICT
on_delete_restrict(S, sch) ==
    LET eff == synql_fklog_effective(S, sch)
        refs == synql_restrict_refs(eff,
                   {f.frow : f \in {g \in eff : g.on_delete = RESTRICT /\ Even(g.row_ul)}})
        redo == {u \in S.id_undo : u.row \in refs /\ u.row # NullRow /\ Odd(u.ul)}
    IN replace_id_undo(S, [r \in {u.row : u \in redo} |-> row_ul(S, r) + 1])

\* The rows of the entries of hit in the order of a scan of _synql_fklog.
RECURSIVE ScanFklog(_, _)
ScanFklog(scan, hit) ==
    IF scan = <<>> THEN <<>>
    ELSE LET here == {f.row : f \in {g \in hit : <<g.ts, g.peer>> = Head(scan)}}
         IN (IF here = {} THEN <<>> ELSE <<CHOOSE r \in here : TRUE>>)
            \o ScanFklog(Tail(scan), hit)

\* Trigger _synql_fklog_effective_insert, fired once for each row of rows.
RECURSIVE synql_fklog_effective_insert(_, _)
synql_fklog_effective_insert(S, rows) ==
    IF rows = <<>> THEN S
    ELSE LET S1 == bump(S)
         IN synql_fklog_effective_insert(
              insert_fklog(S1, [ts |-> S1.ts, peer |-> S1.peer, row |-> Head(rows),
                                field |-> "fk", frow |-> NullRow]),
              Tail(rows))

\* The number of rows (ctx, ectx) of the join of the two contexts for which
\* the two operations are concurrent.
concurrency(S, E, log, fklog) ==
    Cardinality({ce \in (DOMAIN S.context) \X (DOMAIN E.context) :
        \/ /\ log.peer = ce[1] /\ log.ts > S.context[ce[1]]
           /\ fklog.peer = ce[2] /\ fklog.ts > E.context[ce[2]]
        \/ /\ log.peer = ce[2] /\ log.ts > E.context[ce[2]]
           /\ fklog.peer = ce[1] /\ fklog.ts > S.context[ce[1]]})

\* A sequence repeated n times.
RECURSIVE Times(_, _)
Times(sq, n) == IF n = 0 THEN <<>> ELSE sq \o Times(sq, n - 1)

\* A rule C that also appends an entry with a null target for every
\* reference under ON DELETE SET NULL to a row that is undone.
on_delete_set_null(S, E, sch) ==
    LET logs == synql_log_effective(S)
        hit == {fklog \in synql_fklog_effective(S, sch) :
                  /\ fklog.frow # NullRow
                  /\ \/ \E log \in logs :
                          /\ concurrent(S, E, log, fklog) /\ log.row = fklog.frow
                          /\ uniq(log.field, fklog.foreign_index)
                          /\ fklog.on_update = SET_NULL
                     \/ fklog.on_delete = SET_NULL /\ Odd(row_ul(S, fklog.frow))}
    IN synql_fklog_effective_insert(S, ScanFklog(S.fkscan, hit))

\* C. ON UPDATE SET NULL
on_update_set_null(S, E, sch) ==
    LET logs == synql_log_effective(S)
        hit == {fklog \in synql_fklog_effective(S, sch) :
                  \E log \in logs :
                     /\ concurrent(S, E, log, fklog)
                     /\ fklog.frow # NullRow /\ log.row = fklog.frow
                     /\ uniq(log.field, fklog.foreign_index)
                     /\ fklog.on_update = SET_NULL}
        count(row) ==
            LET fklog == CHOOSE f \in hit : f.row = row
                log == CHOOSE l \in logs : l.row = fklog.frow
            IN concurrency(S, E, log, fklog)
        RECURSIVE result(_)
        result(rows) ==
            IF rows = <<>> THEN <<>>
            ELSE Times(<<Head(rows)>>, count(Head(rows))) \o result(Tail(rows))
    IN synql_fklog_effective_insert(S, result(ScanFklog(S.fkscan, hit)))

\* _synql_unified_log_effective
synql_unified_log_effective(S, sch) ==
    {[ts |-> l.ts, peer |-> l.peer, row |-> l.row, field |-> l.field, val |-> l.val,
      frow |-> l.frow, ul |-> l.ul, ul_stamp |-> l.ul_stamp, row_ul |-> l.row_ul]
       : l \in synql_log_effective(S) \cup synql_fklog_effective(S, sch)}

\* A rule D that undoes a row as soon as it agrees with a smaller one on a
\* field of an index, without counting the fields of the index.
resolve_uniqueness_any(S, sch, uniqueness) ==
    LET unified == synql_unified_log_effective(S, sch)
        hit == {l.row : l \in {m \in unified :
                   /\ \E u \in uniqueness : u.field = m.field
                   /\ \E self \in unified :
                        /\ self.field = m.field /\ RowGT(m.row, self.row)
                        /\ \/ m.val # NULL /\ m.val = self.val
                           \/ m.frow # NullRow /\ m.frow = self.frow}}
    IN replace_id_undo(S, [r \in hit |-> row_ul(S, r) + 1])

\* D. resolve uniqueness conflicts, uniqueness being the rows of _synql_uniqueness
resolve_uniqueness(S, sch, uniqueness) ==
    LET unified == synql_unified_log_effective(S, sch)
        indexes == {u.tbl_index : u \in uniqueness}
        fields(idx) == {u.field : u \in {v \in uniqueness : v.tbl_index = idx}}
        same(log, self) ==
            /\ log.field = self.field
            /\ \/ log.val # NULL /\ log.val = self.val
               \/ log.frow # NullRow /\ log.frow = self.frow
            /\ RowGT(log.row, self.row)
        matched(r, o, idx) ==
            {log.field : log \in {l \in unified : l.row = r /\ l.field \in fields(idx)
                                     /\ \E self \in unified : self.row = o /\ same(l, self)}}
        rows == {l.row : l \in unified}
        undone == {r \in rows : \E o \in rows : \E idx \in indexes :
                      /\ matched(r, o, idx) # {}
                      /\ Cardinality(matched(r, o, idx)) >= Cardinality(fields(idx))}
    IN replace_id_undo(S, [r \in undone |-> row_ul(S, r) + 1])

\* D. resolve uniqueness conflicts, for the schema of X and Y
uniqueness_conflicts(S, sch) == resolve_uniqueness(S, sch, synql_uniqueness)

\* _synql_dangling_refs
RECURSIVE synql_dangling_refs(_, _)
synql_dangling_refs(eff, refs) ==
    LET step == {src.row : src \in {f \in eff : f.frow \in refs /\ Even(f.row_ul)}}
    IN IF step \subseteq refs THEN refs ELSE synql_dangling_refs(eff, refs \cup step)

\* E. ON DELETE CASCADE
on_delete_cascade(S, sch) ==
    LET eff == synql_fklog_effective(S, sch)
        base == {f.row : f \in {g \in eff : g.on_delete # SET_NULL /\ Even(g.row_ul)
                                   /\ \E u \in S.id_undo : u.row = g.frow /\ Odd(u.ul)}}
        refs == synql_dangling_refs(eff, base)
    IN replace_id_undo(S, [r \in {q \in refs : Even(row_ul(S, q))} |-> row_ul(S, r) + 1])

(***************************************************************************)
(* _create_pull: for every table, apply the deletions and give a row       *)
(* handle to the new and to the redone rows.                               *)
(***************************************************************************)
\* A statement is atomic: when it fails, the database is as it was before.
Statement(S, R) == IF R.failed THEN Fail(S) ELSE R

\* The rows of a set of row ids in the order of the primary key of _synql_id
\* (row_ts DESC, row_peer DESC).
RECURSIVE Descending(_)
Descending(rows) ==
    IF rows = {} THEN <<>>
    ELSE LET r == CHOOSE r \in rows : \A q \in rows : q = r \/ RowGT(r, q)
         IN <<r>> \o Descending(rows \ {r})

\* The rows of a set of row ids in the order of the index UNIQUE(row_peer,
\* row_ts) of _synql_id.
RECURSIVE ByPeer(_)
ByPeer(rows) ==
    IF rows = {} THEN <<>>
    ELSE LET r == CHOOSE r \in rows :
                    \A q \in rows : q = r \/ TsGT(q[2], q[1], r[2], r[1])
         IN <<r>> \o ByPeer(rows \ {r})

RECURSIVE delete_rows(_, _, _, _)
delete_rows(S, sch, t, rows) ==
    IF rows = <<>> \/ S.failed THEN S
    ELSE LET rowid == Head(rows).rowid
             present == \E r \in S.tbl[t] : r.rowid = rowid
             S1 == IF ~present THEN S
                   ELSE IF t = "X" THEN delete_X(S, sch, rowid) ELSE delete_Y(S, rowid)
         IN delete_rows(S1, sch, t, Tail(rows))

\* DELETE FROM <t> WHERE rowid IN (SELECT id.rowid FROM _synql_id_<t> ... ul%2 = 1)
apply_deletion(S, sch, t) ==
    LET rowids == {e.rowid : e \in {m \in S.idT[t] : Odd(row_ul(S, m.row))}}
    IN Statement(S, delete_rows(S, sch, t, Scan({r \in S.tbl[t] : r.rowid \in rowids})))

RECURSIVE insert_id(_, _, _, _)
insert_id(S, t, rows, or_ignore) ==
    IF rows = <<>> \/ S.failed THEN S
    ELSE LET mapped == \E e \in S.idT[t] : e.row = Head(rows)
             S1 == IF mapped THEN (IF or_ignore THEN S ELSE Fail(S))
                   ELSE [S EXCEPT !.idT[t] = @ \cup
                           {[rowid |-> NextRowid(S.idT[t]), row |-> Head(rows)]}]
         IN insert_id(S1, t, Tail(rows), or_ignore)

\* INSERT INTO _synql_id_<t>(row_peer, row_ts): new active rows
assign_new_rowids(S, t) ==
    LET new == {i.row : i \in {j \in S.id : /\ After(S.context, j.row[1], j.row[2])
                                            /\ j.tbl = t /\ ~Odd(row_ul(S, j.row))}}
    IN Statement(S, insert_id(S, t, Descending(new), FALSE))

\* INSERT OR IGNORE INTO _synql_id_<t>(row_ts, row_peer): redone rows
assign_redone_rowids(S, t) ==
    LET redone == {u.row : u \in {v \in S.id_undo :
                      /\ After(S.context, v.ts, v.peer) /\ Even(v.ul)
                      /\ \E i \in S.id : i.row = v.row /\ i.tbl = t}}
    IN insert_id(S, t, ByPeer(redone), TRUE)

(***************************************************************************)
(* _create_pull: the merger of a table.                                    *)
(***************************************************************************)
\* The entries of a set of log entries with the greatest (ts, peer).
Latest(entries) ==
    {l \in entries : \A o \in entries : ~TsGT(o.ts, o.peer, l.ts, l.peer)}

\* Selector of X.x: the latest value of the row that is not undone.
select_X(S, row) ==
    LET ls == Latest({l \in synql_log_extra(S) :
                        l.row = row /\ l.field = "x" /\ Even(l.ul)})
    IN IF ls = {} THEN NULL ELSE (CHOOSE l \in ls : TRUE).val

\* Selector of Y.x: the latest value of x of the row that the latest reference
\* of the row targets, NULL when the target is undone.
select_Y(S, sch, row) ==
    LET fs == Latest({f \in synql_fklog_extra(S, sch) :
                        /\ f.field = "fk" /\ Even(f.ul) /\ f.row = row /\ Even(f.row_ul)})
        ls == Latest({l \in synql_log_extra(S) :
                        /\ \E f \in fs : f.frow # NullRow /\ l.row = f.frow
                        /\ l.field = "x" /\ Even(l.ul) /\ Even(l.row_ul)})
    IN IF ls = {} THEN NULL ELSE (CHOOSE l \in ls : TRUE).val

\* _synql_unified_log
synql_unified_log(S, sch) == synql_unified_log_effective(S, sch)

\* _synql_cascade_refs, as pairs (row, field)
RECURSIVE cascade_closure(_, _)
cascade_closure(eff, refs) ==
    LET step == {<<src.row, src.field>> : src \in {f \in eff :
                    /\ f.on_update = CASCADE /\ Even(f.row_ul)
                    /\ \E tg \in refs : /\ f.frow = tg[1]
                                        /\ uniq(tg[2], f.foreign_index)}}
    IN IF step \subseteq refs THEN refs ELSE cascade_closure(eff, refs \cup step)

synql_cascade_refs(S, sch) ==
    LET eff == synql_fklog_effective(S, sch)
        base == {<<fklog.row, fklog.field>> : fklog \in {f \in eff :
                    /\ f.on_update = CASCADE /\ Even(f.row_ul)
                    /\ \E log \in synql_unified_log(S, sch) :
                          /\ uniq(log.field, f.foreign_index)
                          /\ f.frow # NullRow /\ log.row = f.frow
                          /\ \/ After(S.context, log.ts, log.peer)
                             \/ After(S.context, log.ul_stamp[1], log.ul_stamp[2])}}
    IN cascade_closure(eff, base)

\* The rows to write: pairs of _synql_id_<t> whose row changed in this merge.
selection(S, sch, t) ==
    LET unified == synql_unified_log(S, sch)
        changed ==
            {l.row : l \in {u \in unified :
                /\ \/ Even(u.ul) /\ After(S.context, u.ts, u.peer)
                   \/ Odd(u.ul) /\ After(S.context, u.ul_stamp[1], u.ul_stamp[2])
                /\ Even(u.row_ul)}}
        redone == {u.row : u \in {v \in S.id_undo :
                      After(S.context, v.ts, v.peer) /\ ~Odd(v.ul)}}
        undone == {l.row : l \in {m \in S.log \cup S.fklog :
                      \E u \in S.undolog : /\ After(S.context, u.ts, u.peer)
                                           /\ u.obj = <<m.ts, m.peer>> /\ Odd(u.ul)}}
        cascade == {c[1] : c \in synql_cascade_refs(S, sch)}
        set_null == {f.row : f \in {g \in synql_fklog_extra(S, sch) :
                        /\ g.on_delete = SET_NULL
                        /\ \E u \in S.id_undo : u.row = g.frow /\ Odd(u.ul)}}
        rows == changed \cup redone \cup undone \cup cascade \cup set_null
    IN {e \in S.idT[t] : e.row \in rows \/ After(S.context, e.row[1], e.row[2])}

\* INSERT OR REPLACE INTO X(rowid, x) VALUES(rowid, v): the rows in conflict on
\* the row handle or on the primary key are deleted without their delete
\* trigger, with the ON DELETE action of the foreign key that references them.
replace_X(S, sch, rowid, v) ==
    LET conflicts == {r \in S.tbl["X"] : r.rowid = rowid \/ (v # NULL /\ r.x = v)}
        referenced == {r \in conflicts : Referencing(S, r.x) # <<>>}
        RECURSIVE act(_, _)
        act(S1, rs) ==
            IF rs = <<>> THEN S1
            ELSE act(fk_action(S1, sch.on_delete, Referencing(S1, Head(rs).x), NULL),
                     Tail(rs))
        S2 == IF sch.on_delete \in {CASCADE, SET_NULL}
              THEN act(S, Scan(referenced)) ELSE S
    IN IF sch.on_delete = RESTRICT /\ referenced # {} THEN Fail(S)
       ELSE [S2 EXCEPT !.tbl["X"] = (@ \ conflicts) \cup {[rowid |-> rowid, x |-> v]}]

\* INSERT OR REPLACE INTO Y(rowid, x) VALUES(rowid, v)
replace_Y(S, rowid, v) ==
    [S EXCEPT !.tbl["Y"] = {r \in @ : r.rowid # rowid} \cup {[rowid |-> rowid, x |-> v]}]

RECURSIVE replace_rows(_, _, _, _)
replace_rows(S0, S, sch, sel) ==
    IF sel = <<>> \/ S.failed THEN S
    ELSE LET e == Head(sel)
             S1 == IF e.t = "X" THEN replace_X(S, sch, e.rowid, select_X(S0, e.row))
                   ELSE replace_Y(S, e.rowid, select_Y(S0, sch, e.row))
         IN replace_rows(S0, S1, sch, Tail(sel))

\* A row of Y references a key that no row of X holds.
Dangling(S, r) == r.x # NULL /\ ~\E q \in S.tbl["X"] : q.x = r.x

\* The foreign key violations that the merger of t leaves when it ends: the
\* children of a replaced parent when t is X, the children it wrote when t is Y.
Violations(S, R, t, rowids) ==
    IF t = "X" THEN {r \in R.tbl["Y"] : Dangling(R, r) /\ ~Dangling(S, r)}
    ELSE {r \in R.tbl["Y"] : r.rowid \in rowids /\ Dangling(R, r)}

\* INSERT OR REPLACE INTO <t>(rowid, x) WITH RECURSIVE ... SELECT ...
merger(S, sch, t) ==
    LET sel == Scan({[rowid |-> e.rowid, row |-> e.row, t |-> t]
                       : e \in selection(S, sch, t)})
        R == replace_rows(S, S, sch, sel)
        rowids == {e.rowid : e \in selection(S, sch, t)}
    IN IF R.failed \/ (S.fk /\ Violations(S, R, t, rowids) # {}) THEN Fail(S) ELSE R

\* A merge end that advances the context of the local peer to the clock
\* whether or not the pull stamped an entry with it.
merge_end_clock(S, E) ==
    [S EXCEPT !.context = [p \in DOMAIN @ |->
        IF p = S.peer THEN S.ts
        ELSE IF p \in DOMAIN E.context /\ E.context[p] > @[p] THEN E.context[p] ELSE @[p]]]

\* A merge end that takes the timestamps of the remote context as they are,
\* where _MERGE_END keeps the greater of the two.
merge_end_remote(S, E) ==
    [S EXCEPT !.context = [p \in DOMAIN @ |->
                              IF p \in DOMAIN E.context THEN E.context[p] ELSE @[p]]]

(***************************************************************************)
(* _MERGE_END                                                              *)
(***************************************************************************)
merge_end(S, E) ==
    LET ctx1 == [p \in DOMAIN S.context |->
                   IF p \in DOMAIN E.context /\ E.context[p] > S.context[p]
                   THEN E.context[p] ELSE S.context[p]]
        stamped == \E u \in S.id_undo \cup S.undolog \cup S.log \cup S.fklog :
                      u.peer = S.peer /\ u.ts = S.ts
    IN [S EXCEPT !.context = [p \in DOMAIN ctx1 |->
                                 IF p = S.peer /\ stamped THEN S.ts ELSE ctx1[p]]]

\* UPDATE _synql_local SET is_merging = 0; DETACH DATABASE extern
detach(S) == [S EXCEPT !.is_merging = 0, !.attached = FALSE]

\* A pull that hands its context over to the remote, timestamps included.
extern_known(S, E) ==
    [E EXCEPT !.context = [r \in DOMAIN @ \cup DOMAIN S.context |->
                              IF r \in DOMAIN S.context THEN S.context[r] ELSE @[r]]]

(***************************************************************************)
(* pull_from: the script, statement after statement.  The script runs in   *)
(* autocommit mode: it stops at the first statement that fails and keeps   *)
(* what the statements before it wrote.                                    *)
(***************************************************************************)
\* The attached database once the missing peers are added to its context.
extern(S, E) == [E EXCEPT !.context = add_missing_peers(@, S.context)]

\* Add new id and log entries, then the undo entries
pull_rows(S, E) ==
    Then(Then(Then(Then(pull_id(S, E),
                        LAMBDA s : pull_log(s, E)),
                   LAMBDA s : pull_fklog(s, E)),
              LAMBDA s : pull_id_undo(s, E)),
         LAMBDA s : pull_undolog(s, E))

\* Add missing peers in the context with a default timestamp of 0
pull_peers(S, E1) == [S EXCEPT !.context = add_missing_peers(@, E1.context)]

pull_extern(S, E1) ==
    pull_rows(pull_peers(update_clock(S, E1), E1), extern(S, E1))

conflict_resolution(S, E, sch) ==
    LET s1 == on_update_restrict(S, E, sch)
        s2 == on_delete_restrict(s1, sch)
        s3 == on_update_set_null(s2, E, sch)
        s4 == uniqueness_conflicts(s3, sch)
    IN on_delete_cascade(s4, sch)

RECURSIVE create_pull_tables(_, _, _)
create_pull_tables(S, sch, ts) ==
    IF ts = <<>> THEN S
    ELSE LET s1 == Then(S, LAMBDA s : apply_deletion(s, sch, Head(ts)))
             s2 == Then(s1, LAMBDA s : assign_new_rowids(s, Head(ts)))
             s3 == Then(s2, LAMBDA s : assign_redone_rowids(s, Head(ts)))
         IN create_pull_tables(s3, sch, Tail(ts))

RECURSIVE create_pull_mergers(_, _, _)
create_pull_mergers(S, sch, ts) ==
    IF ts = <<>> THEN S
    ELSE create_pull_mergers(Then(S, LAMBDA s : merger(s, sch, Head(ts))), sch, Tail(ts))

create_pull(S, sch) ==
    create_pull_mergers(create_pull_tables(S, sch, Tables), sch, Tables)

\* The statements that follow ATTACH DATABASE, E being the attached database
pull_attached(S, E1, E, sch) ==
    Then(Then(Then(Then(Then(S,
                             LAMBDA s : pull_extern(s, E1)),
                        LAMBDA s : conflict_resolution(s, E, sch)),
                   LAMBDA s : create_pull(s, sch)),
              LAMBDA s : merge_end(s, E)),
         detach)

pull_from(S, E1, sch) == pull_attached(attach(S), E1, extern(S, E1), sch)

(***************************************************************************)
(* clone_to: the file S is copied to the file of the connection T, which   *)
(* gets the identifier peer.                                               *)
(***************************************************************************)
\* source.backup(target)
backup(S, T) == [S EXCEPT !.fk = T.fk, !.wall = T.wall, !.attached = FALSE]

clone_to(S, T, peer) == allocate_id(backup(S, T), peer)

(***************************************************************************)
(* The system: the replica a made by init and the replica b made by        *)
(* clone_to.  limit bounds the number of calls of a behaviour, calls       *)
(* counts the calls made so far and hist holds the last statement of the   *)
(* application and the calls made since, the last MaxHist of them.         *)
(***************************************************************************)
Schemas == [on_delete : Declared, on_update : Declared]

\* The configuration of the tests: Config(physical_clock = False)
Logical == [physical_clock |-> FALSE, no_action_is_cascade |-> FALSE]

Present(f) == dbs[f].peer # 0

Kinds == {"a", "b", "init", "clone", "pull", "exchange"}

\* The call is counted under its kind, a statement under the replica it ran on.
Called(kind) == [calls EXCEPT ![kind] = @ + 1]

Ops == calls["a"] + calls["b"]

Event(kind, p, q, ok) == [kind |-> kind, p |-> p, q |-> q, ok |-> ok]

Record(e) ==
    IF Len(hist) < MaxHist THEN Append(hist, e) ELSE Append(Tail(hist), e)

Limit(ops, pulls, exchanges) == [op |-> ops, pull |-> pulls, exchange |-> exchanges]

\* Two database files with a schema of schemas, and the configuration of the
\* run; fks gives PRAGMA foreign_keys of the connections to a and to b.
Setup(schemas, confs, fks, lim) ==
    /\ schema \in schemas
    /\ conf \in confs
    /\ \E fk \in fks : dbs = [a |-> database(fk[1]), b |-> database(fk[2])]
    /\ limit = lim
    /\ hist = <<>>
    /\ calls = [k \in Kinds |-> 0]

Init ==
    Setup(Schemas, {Logical}, BOOLEAN \X BOOLEAN, Limit(MaxOps, MaxPulls, MaxExchanges))

\* The connection after a call that returned R: an error is raised to the
\* caller and the connection stays usable.
Returned(R) == [R EXCEPT !.failed = FALSE]

\* The file of a after init ran to R
Initialized(R) ==
    /\ dbs' = [dbs EXCEPT !["a"] = Returned(R)]
    /\ hist' = Record(Event("init", "a", "a", ~R.failed))

\* init(a, replica_id = 1, conf = conf)
Initialize ==
    /\ dbs["a"].installed = {}
    /\ Initialized(init(dbs["a"], schema, conf, PeerOf["a"]))
    /\ calls' = Called("init")
    /\ UNCHANGED <<schema, conf, limit>>

\* A statement run by the application on the replica p.
Local(p, R) ==
    /\ Present(p)
    /\ Ops < limit.op
    /\ ~R.failed
    /\ dbs' = [dbs EXCEPT ![p] = R]
    /\ hist' = <<Event("edit", p, p, TRUE)>>
    /\ calls' = Called(p)
    /\ UNCHANGED <<schema, conf, limit>>

InsertX(p, v) == Local(p, insert_X(dbs[p], v))

InsertY(p, v) == Local(p, insert_Y(dbs[p], v))

UpdateX(p, v) ==
    /\ Present(p)
    /\ \E r \in dbs[p].tbl["X"] : Local(p, update_X(dbs[p], schema, r.rowid, v))

UpdateY(p, v) ==
    /\ Present(p)
    /\ \E r \in dbs[p].tbl["Y"] : Local(p, update_Y(dbs[p], r.rowid, v))

DeleteX(p) ==
    /\ Present(p)
    /\ \E r \in dbs[p].tbl["X"] : Local(p, delete_X(dbs[p], schema, r.rowid))

DeleteY(p) ==
    /\ Present(p)
    /\ \E r \in dbs[p].tbl["Y"] : Local(p, delete_Y(dbs[p], r.rowid))

\* clone_to(a, b, replica_id = 2)
Clone ==
    /\ Present("a") /\ ~Present("b")
    /\ dbs' = [dbs EXCEPT !["b"] = clone_to(dbs["a"], dbs["b"], PeerOf["b"])]
    /\ hist' = Record(Event("clone", "a", "b", TRUE))
    /\ calls' = Called("clone")
    /\ UNCHANGED <<schema, conf, limit>>

\* The file q after the connection to S attached it, or failed to.
Attached(S, E) == IF S.attached THEN E ELSE extern(S, E)

\* The files after pull_from(p, q) ran to R
Pulled(p, q, R) ==
    /\ dbs' = [dbs EXCEPT ![p] = Returned(R), ![q] = Attached(dbs[p], @)]
    /\ hist' = Record(Event("pull", p, q, ~R.failed))

\* pull_from(p, q)
Pull(p, q) ==
    /\ Present(p) /\ Present(q)
    /\ calls["pull"] < limit.pull
    /\ Pulled(p, q, pull_from(dbs[p], dbs[q], schema))
    /\ calls' = Called("pull")
    /\ UNCHANGED <<schema, conf, limit>>

\* The files after a ran to Ra and b ran to Rb
Exchanged(Ra, Rb) ==
    /\ dbs' = [a |-> Returned(Ra), b |-> Returned(Rb)]
    /\ hist' = Record(Event("exchange", "a", "b", ~Ra.failed /\ ~Rb.failed))

\* Each replica pulls the state that the other had before it merged, as the
\* tests do with a copy of the file of a: pull_from(a, b); pull_from(b, a.bak).
Exchange ==
    /\ Present("a") /\ Present("b")
    /\ calls["exchange"] < limit.exchange
    /\ Exchanged(pull_from(dbs["a"], dbs["b"], schema),
                 pull_from(Attached(dbs["a"], dbs["b"]), backup(dbs["a"], database(FALSE)), schema))
    /\ calls' = Called("exchange")
    /\ UNCHANGED <<schema, conf, limit>>

\* The wall clock of the machine of p moves, forwards or backwards, to w.
Tick(p, w) ==
    /\ Present(p) /\ dbs[p].local_clock
    /\ w # dbs[p].wall
    /\ dbs' = [dbs EXCEPT ![p].wall = w]
    /\ UNCHANGED <<schema, conf, limit, hist, calls>>

\* A statement of the application on a replica
Edit ==
    \/ \E p \in Replicas : \E v \in Vals : InsertX(p, v)
    \/ \E p \in Replicas : \E v \in Vals \cup {NULL} : InsertY(p, v)
    \/ \E p \in Replicas : \E v \in Vals : UpdateX(p, v)
    \/ \E p \in Replicas : \E v \in Vals \cup {NULL} : UpdateY(p, v)
    \/ \E p \in Replicas : DeleteX(p)
    \/ \E p \in Replicas : DeleteY(p)

Next ==
    \/ Edit
    \/ Initialize
    \/ Clone
    \/ \E p \in Replicas : Pull(p, Other(p))
    \/ Exchange

Spec == Init /\ [][Next]_vars

(***************************************************************************)
(* Scenarios.                                                              *)
(***************************************************************************)
\* The calls of the two replicas, each pulling from the other
Replicate ==
    \/ Edit
    \/ Initialize
    \/ Clone
    \/ \E p \in Replicas : Pull(p, Other(p))

\* A pull that fails: the replica b enforces the foreign key, the replica a
\* does not.
FailOps == 4
FailPulls == 1

InitFailure ==
    Setup({[on_delete |-> RESTRICT, on_update |-> CASCADE]}, {Logical},
          {<<FALSE, TRUE>>}, Limit(FailOps, FailPulls, 0))

SpecFailure == InitFailure /\ [][Replicate]_vars

\* A pull from a replica whose own pull failed: the replica b enforces the
\* foreign key and its pull fails, then the replica a pulls from b.
RemoteOps == 3
RemotePulls == 3

InitRemote ==
    Setup({[on_delete |-> RESTRICT, on_update |-> CASCADE]}, {Logical},
          {<<FALSE, TRUE>>}, Limit(RemoteOps, RemotePulls, 0))

SpecRemote == InitRemote /\ [][Replicate]_vars

\* One replica that enforces its foreign key, and its local statements
LocalOps == 3

InitLocal ==
    Setup(Schemas, {Logical}, {<<TRUE, TRUE>>}, Limit(LocalOps, 0, 0))

SpecLocal == InitLocal /\ [][Edit \/ Initialize]_vars

\* Two replicas that diverge by local statements and then cross their pulls
CrossedOps == 3

InitCrossed ==
    Setup([on_delete : {CASCADE, RESTRICT}, on_update : {CASCADE}], {Logical},
          BOOLEAN \X BOOLEAN, Limit(CrossedOps, 0, 1))

SpecCrossed == InitCrossed /\ [][Initialize \/ Clone \/ Edit \/ Exchange]_vars

\* Two replicas under ON DELETE RESTRICT that diverge by local inserts and
\* deletes and then cross their pulls
RestrictOps == 5

InitRestrict ==
    Setup({[on_delete |-> RESTRICT, on_update |-> CASCADE]}, {Logical},
          {<<FALSE, FALSE>>}, Limit(RestrictOps, 0, 1))

NextRestrict ==
    \/ Initialize
    \/ Clone
    \/ \E p \in Replicas : \E v \in Vals : InsertX(p, v)
    \/ \E p \in Replicas : \E v \in Vals : InsertY(p, v)
    \/ \E p \in Replicas : DeleteX(p)
    \/ Exchange

SpecRestrict == InitRestrict /\ [][NextRestrict]_vars

\* Rule D on its own, over a table T(a, b, fk REFERENCES X, PRIMARY KEY(a, b),
\* UNIQUE(b, fk)): the rows of _synql_uniqueness for T
Covering ==
    {[field |-> "a", tbl_index |-> "T_pk"], [field |-> "b", tbl_index |-> "T_pk"],
     [field |-> "b", tbl_index |-> "T_u"], [field |-> "fk", tbl_index |-> "T_u"]}

\* The rows of T, and the rows of X that they may reference
RowsT == {<<1, 1>>, <<1, 2>>, <<2, 1>>}
RowsX == {<<3, 1>>, <<3, 2>>}

\* The values of the columns of a row of T
ValuesT == [a : {NULL, 1}, b : Vals \cup {NULL}, fk : RowsX \cup {NullRow}]

\* A replica whose log holds the rows of T as their inserts logged them
Logged(vals) ==
    [create_tables(database(FALSE)) EXCEPT
        !.installed = @ \cup {"triggers"}, !.peer = PeerOf["a"], !.ts = 4,
        !.synql_fk = synql_fk([on_delete |-> CASCADE, on_update |-> CASCADE], Logical),
        !.context = [p \in {1, 2} |-> 3],
        !.id = {[tbl |-> "T", row |-> r] : r \in RowsT} \cup {[tbl |-> "X", row |-> r] : r \in RowsX},
        !.log = {[ts |-> rf[1][1], peer |-> rf[1][2], row |-> rf[1], field |-> rf[2],
                  val |-> vals[rf[1]][rf[2]]] : rf \in RowsT \X {"a", "b"}},
        !.fklog = {[ts |-> r[1], peer |-> r[2], row |-> r, field |-> "fk",
                    frow |-> vals[r].fk] : r \in RowsT}]

InitUniqueness ==
    /\ schema = [on_delete |-> CASCADE, on_update |-> CASCADE]
    /\ conf = Logical
    /\ \E vals \in [RowsT -> ValuesT] :
          dbs = [a |-> Logged(vals), b |-> database(FALSE)]
    /\ limit = Limit(0, 0, 0)
    /\ hist = <<>>
    /\ calls = [k \in Kinds |-> 0]

\* Rule D runs on the replica a.
Resolve ==
    /\ hist = <<>>
    /\ dbs' = [dbs EXCEPT !["a"] = resolve_uniqueness(@, schema, Covering)]
    /\ hist' = Record(Event("resolve", "a", "a", TRUE))
    /\ UNCHANGED <<schema, conf, limit, calls>>

SpecUniqueness == InitUniqueness /\ [][Resolve]_vars

\* Two replicas under ON UPDATE RESTRICT
UpdateOps == 3
UpdatePulls == 1

InitUpdate ==
    Setup({[on_delete |-> CASCADE, on_update |-> RESTRICT]}, {Logical},
          {<<FALSE, FALSE>>, <<TRUE, TRUE>>}, Limit(UpdateOps, UpdatePulls, 1))

SpecUpdate == InitUpdate /\ [][Next]_vars

\* The rules of _CONFLICT_RESOLUTION over a chain of three tables,
\* X(x int PRIMARY KEY), Y(y integer PRIMARY KEY, x int REFERENCES X(x)
\* ON DELETE d1) and Z(z integer PRIMARY KEY, y integer REFERENCES Y(y)
\* ON DELETE d2): the rows of X, of a, and the rows of Y and of Z, of b
ChainX == {<<1, 1>>, <<3, 1>>}
ChainY == <<4, 2>>
ChainZ == <<5, 2>>
ChainRows == ChainX \cup {ChainY, ChainZ}

\* _synql_fk for the chain
chain_fk(d1, d2) ==
    {[field |-> "fk1", foreign_index |-> "X_pk", on_delete |-> d1, on_update |-> CASCADE],
     [field |-> "fk2", foreign_index |-> "Y_pk", on_delete |-> d2, on_update |-> CASCADE]}

\* The replica a once _PULL_EXTERN has merged the logs of b: uls gives the
\* undo length of every row, vals the values of x, yx and zy the targets of
\* the references of the rows of Y and of Z.
Chained(d1, d2, uls, vals, yx, zy) ==
    [create_tables(database(FALSE)) EXCEPT
        !.installed = @ \cup {"triggers"}, !.peer = PeerOf["a"], !.ts = 7,
        !.attached = TRUE, !.is_merging = 1,
        !.synql_fk = chain_fk(d1, d2),
        !.context = [p \in {1, 2} |-> IF p = 1 THEN 6 ELSE 3],
        !.id = {[tbl |-> "X", row |-> r] : r \in ChainX} \cup
               {[tbl |-> "Y", row |-> ChainY], [tbl |-> "Z", row |-> ChainZ]},
        !.id_undo = {[row |-> r, ul |-> uls[r], ts |-> 6, peer |-> IF r[2] = 1 THEN 2 ELSE 1]
                       : r \in {q \in ChainRows : uls[q] > 0 /\ q # <<1, 1>>}} \cup
                    {[row |-> r, ul |-> uls[r], ts |-> 2, peer |-> 1]
                       : r \in {q \in {<<1, 1>>} : uls[q] > 0}},
        !.log = {[ts |-> r[1], peer |-> r[2], row |-> r, field |-> "x", val |-> vals[r]]
                   : r \in ChainX},
        !.fklog = {[ts |-> 4, peer |-> 2, row |-> ChainY, field |-> "fk1", frow |-> yx],
                   [ts |-> 5, peer |-> 2, row |-> ChainZ, field |-> "fk2", frow |-> zy]},
        !.fkscan = <<ChainY, ChainZ>>]

\* The replica b, attached as extern
ChainedExtern == [create_tables(database(FALSE)) EXCEPT
                     !.peer = PeerOf["b"], !.ts = 6, !.context = [p \in {1, 2} |-> IF p = 1 THEN 3 ELSE 6]]

ChainActions == {CASCADE, RESTRICT, SET_NULL}

InitChain ==
    /\ schema = [on_delete |-> CASCADE, on_update |-> CASCADE]
    /\ conf = Logical
    /\ \E d1 \in ChainActions, d2 \in ChainActions : \E uls \in [ChainRows -> {0, 1}] :
       \E vals \in [ChainX -> Vals] : \E yx \in ChainX \cup {NullRow} : \E zy \in {ChainY, NullRow} :
          \* the first row of X is gone when the second one takes its key, and
          \* no row inserted later references it
          /\ vals[<<1, 1>>] = vals[<<3, 1>>] => uls[<<1, 1>>] = 1 /\ yx # <<1, 1>>
          /\ dbs = [a |-> Chained(d1, d2, uls, vals, yx, zy), b |-> ChainedExtern]
    /\ limit = Limit(0, 0, 0)
    /\ hist = <<>>
    /\ calls = [k \in Kinds |-> 0]

\* _CONFLICT_RESOLUTION runs on the replica a.
ResolveChain ==
    /\ hist = <<>>
    /\ dbs' = [dbs EXCEPT !["a"] = conflict_resolution(@, dbs["b"], schema)]
    /\ hist' = Record(Event("resolve", "a", "b", TRUE))
    /\ UNCHANGED <<schema, conf, limit, calls>>

SpecChain == InitChain /\ [][ResolveChain]_vars

\* Two replicas under ON DELETE RESTRICT whose rows of Y move from one row of
\* X to another
PastOps == 6

InitPast ==
    Setup({[on_delete |-> RESTRICT, on_update |-> CASCADE]}, {Logical},
          {<<FALSE, FALSE>>}, Limit(PastOps, 1, 0))

NextPast ==
    \/ Initialize
    \/ Clone
    \/ InsertX("a", 1)
    \/ \E v \in Vals : InsertX("b", v)
    \/ \E v \in Vals : InsertY("b", v)
    \/ \E v \in Vals : UpdateY("b", v)
    \/ DeleteX("b")
    \/ Pull("a", "b")

SpecPast == InitPast /\ [][NextPast]_vars

\* Two replicas under ON DELETE SET NULL that diverge by local statements and
\* then cross their pulls
SetNullOps == 3

InitSetNull ==
    Setup({[on_delete |-> SET_NULL, on_update |-> CASCADE]}, {Logical},
          BOOLEAN \X BOOLEAN, Limit(SetNullOps, 0, 1))

SpecSetNull == InitSetNull /\ [][Initialize \/ Clone \/ Edit \/ Exchange]_vars

\* Two replicas under ON UPDATE SET NULL that diverge by local statements and
\* then cross their pulls
NullifyOps == 3

InitNullify ==
    Setup({[on_delete |-> CASCADE, on_update |-> SET_NULL]}, {Logical},
          BOOLEAN \X BOOLEAN, Limit(NullifyOps, 0, 1))

SpecNullify == InitNullify /\ [][Initialize \/ Clone \/ Edit \/ Exchange]_vars

\* The application moves rows to other row handles, and a replica pulls
\* afterwards.
HandleOps == 3
HandlePulls == 2
MaxHandle == 3

InitHandle ==
    Setup({[on_delete |-> CASCADE, on_update |-> CASCADE]}, {Logical},
          {<<TRUE, FALSE>>}, Limit(HandleOps, HandlePulls, 0))

UpdateRowid(p, t, h) ==
    /\ Present(p)
    /\ \E r \in dbs[p].tbl[t] : r.rowid # h /\ Local(p, update_rowid(dbs[p], t, r.rowid, h))

NextHandle ==
    \/ Initialize
    \/ Clone
    \/ \E p \in Replicas : \E v \in Vals : InsertX(p, v)
    \/ \E p \in Replicas : \E v \in Vals : InsertY(p, v)
    \/ \E p \in Replicas : \E t \in TableSet : \E h \in 1..MaxHandle : UpdateRowid(p, t, h)
    \/ \E p \in Replicas : DeleteY(p)
    \/ \E p \in Replicas : Pull(p, Other(p))

SpecHandle == InitHandle /\ [][NextHandle]_vars

\* A table whose rows reference rows of the same table through two foreign
\* keys, so that the references between the rows may form cycles
CycleSeq == <<<<1, 1>>, <<2, 1>>, <<4, 2>>>>

CycleRows == {CycleSeq[i] : i \in DOMAIN CycleSeq}

CycleIdx(r) == CHOOSE i \in DOMAIN CycleSeq : CycleSeq[i] = r

\* _synql_fk of the table
cycle_fk(d1) ==
    {[field |-> "fk1", foreign_index |-> "X_pk", on_delete |-> d1, on_update |-> CASCADE],
     [field |-> "fk2", foreign_index |-> "X_pk", on_delete |-> CASCADE, on_update |-> CASCADE]}

\* The replica a once _PULL_EXTERN has merged the logs of b.  Each replica
\* has set the references of the rows it inserted, b has then given a new
\* key to its row, and each has deleted rows of the other.  d1 is ON DELETE
\* of the first foreign key, uls gives the undo length of every row, f1 and
\* f2 the targets of the two references of every row, uniqueness the rows of
\* _synql_uniqueness.  The last fields are the select that is running, the
\* number of rounds it has run, and the tables of the three recursive selects
\* as they fill.
Cyclic(d1, uls, f1, f2, uniqueness) ==
    [create_tables(database(FALSE)) EXCEPT
        !.installed = @ \cup {"triggers"}, !.peer = PeerOf["a"], !.ts = 10,
        !.attached = TRUE, !.is_merging = 1,
        !.synql_fk = cycle_fk(d1),
        !.context = [p \in {1, 2} |-> IF p = 1 THEN 7 ELSE 4],
        !.id = {[tbl |-> "X", row |-> r] : r \in CycleRows},
        !.id_undo = {[row |-> r, ul |-> uls[r], ts |-> 4 + CycleIdx(r), peer |-> 3 - r[2]]
                       : r \in {q \in CycleRows : uls[q] > 0}},
        !.log = {[ts |-> r[1], peer |-> r[2], row |-> r, field |-> "x", val |-> CycleIdx(r)]
                   : r \in CycleRows} \cup
                {[ts |-> 8, peer |-> 2, row |-> <<4, 2>>, field |-> "x", val |-> 4]},
        !.fklog = {[ts |-> 4 + CycleIdx(r), peer |-> r[2], row |-> r, field |-> "fk1", frow |-> f1[r]]
                     : r \in CycleRows} \cup
                  {[ts |-> 4 + CycleIdx(r), peer |-> r[2], row |-> r, field |-> "fk2", frow |-> f2[r]]
                     : r \in CycleRows},
        !.fkscan = CycleSeq]
    @@ [uniqueness |-> uniqueness, cte |-> "restrict", rounds |-> 0,
        restrict_refs |-> {}, dangling_refs |-> {}, cascade_refs |-> {}]

\* The replica b, attached as extern
CyclicExtern == [create_tables(database(FALSE)) EXCEPT
                    !.peer = PeerOf["b"], !.ts = 9, !.context = [p \in {1, 2} |-> IF p = 1 THEN 3 ELSE 8]]

\* The initial select of _synql_restrict_refs
restrict_init(S, sch) ==
    {f.frow : f \in {g \in synql_fklog_effective(S, sch) :
                        g.on_delete = RESTRICT /\ Even(g.row_ul)}}

\* The initial select of _synql_dangling_refs
dangling_init(S, sch) ==
    {f.row : f \in {g \in synql_fklog_effective(S, sch) :
                       /\ g.on_delete # SET_NULL /\ Even(g.row_ul)
                       /\ \E u \in S.id_undo : u.row = g.frow /\ Odd(u.ul)}}

\* The initial select of _synql_cascade_refs
cascade_init(S, sch) ==
    {<<fklog.row, fklog.field>> : fklog \in {f \in synql_fklog_effective(S, sch) :
        /\ f.on_update = CASCADE /\ Even(f.row_ul)
        /\ \E log \in synql_unified_log(S, sch) :
              /\ \E u \in S.uniqueness : u.field = log.field /\ u.tbl_index = f.foreign_index
              /\ f.frow # NullRow /\ log.row = f.frow
              /\ \/ After(S.context, log.ts, log.peer)
                 \/ After(S.context, log.ul_stamp[1], log.ul_stamp[2])}}

\* One round of the recursive select of _synql_restrict_refs: the rows it
\* adds to refs.  UNION discards the rows that refs already holds.
restrict_round(eff, refs) ==
    {tgt.frow : tgt \in {t \in eff : t.row \in refs /\ t.on_delete = CASCADE}} \ refs

\* A round of the recursive select of rule E under UNION ALL, which keeps the
\* rows that the table already holds.
dangling_round_all(eff, refs) ==
    {src.row : src \in {f \in eff : f.frow \in refs /\ Even(f.row_ul)}}

\* One round of the recursive select of _synql_dangling_refs
dangling_round(eff, refs) ==
    {src.row : src \in {f \in eff : f.frow \in refs /\ Even(f.row_ul)}} \ refs

\* One round of the recursive select of _synql_cascade_refs
cascade_round(eff, uniqueness, refs) ==
    {<<src.row, src.field>> : src \in {f \in eff :
        /\ f.on_update = CASCADE /\ Even(f.row_ul)
        /\ \E tg \in refs :
              /\ f.frow = tg[1]
              /\ \E u \in uniqueness : u.field = tg[2] /\ u.tbl_index = f.foreign_index}} \ refs

InitCycle ==
    /\ schema = [on_delete |-> CASCADE, on_update |-> CASCADE]
    /\ conf = Logical
    /\ \E d1 \in {RESTRICT, CASCADE} : \E uls \in [CycleRows -> {0, 1}] :
       \E f2 \in [CycleRows -> CycleRows \cup {NullRow}] :
       \E r1 \in CycleRows \cup {NullRow} : \E covered \in BOOLEAN :
          LET f1 == [r \in CycleRows |-> IF r = <<4, 2>> THEN r1 ELSE NullRow]
              uniqueness == synql_uniqueness \cup
                  (IF covered THEN {[field |-> "fk2", tbl_index |-> "X_pk"]} ELSE {})
              S == on_update_restrict(Cyclic(d1, uls, f1, f2, uniqueness), CyclicExtern, schema)
          IN dbs = [a |-> [S EXCEPT !.restrict_refs = restrict_init(S, schema)],
                    b |-> CyclicExtern]
    /\ limit = Limit(0, 0, 0)
    /\ hist = <<>>
    /\ calls = [k \in Kinds |-> 0]

\* A round of rule B; the rule writes and rules C and D run once a round adds
\* nothing.
RestrictRound ==
    LET S == dbs["a"]
        new == restrict_round(synql_fklog_effective(S, schema), S.restrict_refs)
    IN /\ S.cte = "restrict"
       /\ dbs' = [dbs EXCEPT !["a"] =
            IF new # {} THEN [S EXCEPT !.restrict_refs = @ \cup new, !.rounds = @ + 1]
            ELSE LET s2 == on_delete_restrict(S, schema)
                     s3 == on_update_set_null(s2, dbs["b"], schema)
                     s4 == resolve_uniqueness(s3, schema, S.uniqueness)
                 IN [s4 EXCEPT !.cte = "dangling", !.rounds = 0, !.dangling_refs = dangling_init(s4, schema)]]
       /\ UNCHANGED <<schema, conf, limit, hist, calls>>

\* A round of rule E
DanglingRound ==
    LET S == dbs["a"]
        new == dangling_round(synql_fklog_effective(S, schema), S.dangling_refs)
    IN /\ S.cte = "dangling"
       /\ dbs' = [dbs EXCEPT !["a"] =
            IF new # {} THEN [S EXCEPT !.dangling_refs = @ \cup new, !.rounds = @ + 1]
            ELSE LET s5 == on_delete_cascade(S, schema)
                 IN [s5 EXCEPT !.cte = "cascade", !.rounds = 0, !.cascade_refs = cascade_init(s5, schema)]]
       /\ UNCHANGED <<schema, conf, limit, hist, calls>>

\* A round of the collection of the rows to rewrite under ON UPDATE CASCADE
CascadeRound ==
    LET S == dbs["a"]
        new == cascade_round(synql_fklog_effective(S, schema), S.uniqueness, S.cascade_refs)
    IN /\ S.cte = "cascade"
       /\ dbs' = [dbs EXCEPT !["a"] =
            IF new # {} THEN [S EXCEPT !.cascade_refs = @ \cup new, !.rounds = @ + 1]
            ELSE [S EXCEPT !.cte = "done"]]
       /\ UNCHANGED <<schema, conf, limit, hist, calls>>

NextCycle ==
    \/ RestrictRound
    \/ DanglingRound
    \/ CascadeRound

SpecCycle == InitCycle /\ [][NextCycle]_vars

\* The physical clock: Config(physical_clock = True), the wall clocks of the
\* two machines moving freely between the calls.
Physical == [physical_clock |-> TRUE, no_action_is_cascade |-> FALSE]

InitClock ==
    Setup({[on_delete |-> SET_NULL, on_update |-> SET_NULL]}, {Physical, Logical},
          {<<TRUE, FALSE>>}, Limit(MaxOps, MaxPulls, 0))

NextClock ==
    \/ Replicate
    \/ \E p \in Replicas : \E w \in 0..MaxWall : Tick(p, w)

SpecClock == InitClock /\ [][NextClock]_vars

(***************************************************************************)
(* Properties.                                                             *)
(***************************************************************************)
\* The last call, when there is one
Last == hist[Len(hist)]

\* The last call was made on the replica p and it completed.
Completed(p) == hist # <<>> /\ Last.p = p /\ Last.ok

\* The last call was a call of kind on the replica p.
Did(kind, p) == hist # <<>> /\ Last.kind = kind /\ Last.p = p

\* A pull of the replica p failed and left its database attached.
Broken(p) == Present(p) /\ dbs[p].attached

\* Every row of a user table has an entry of _synql_id_<T> for its handle,
\* whose row has an even undo length.
Parity(S) ==
    \A t \in TableSet : \A r \in S.tbl[t] :
        /\ RowOf(S, t, r.rowid) # NullRow
        /\ Even(row_ul(S, RowOf(S, t, r.rowid)))

\* C11: after every completed operation of a replica, every row materialized
\* in a user table has a row map entry for its handle, and the undo length
\* of the row it maps to is even.
C11_VisibilityParity ==
    \A p \in Replicas : Present(p) /\ Completed(p) => Parity(dbs[p])

\* The context of S never lies behind the context of R.
Advanced(R, S) ==
    \A q \in DOMAIN R.context :
        q \in DOMAIN S.context /\ S.context[q] >= R.context[q]

\* C12: the context of a replica never decreases: every step, a local
\* statement or a pull, leaves each timestamp of the context of each replica
\* at or above its former value, and drops no peer.
C12_ContextMonotone ==
    [][\A p \in Replicas : Present(p) => Advanced(dbs[p], dbs'[p])]_vars

\* A pull completed and raised the timestamp that the replica knows of
\* another peer.
C12_Witness ==
    \E p \in Replicas :
        /\ Present(p) /\ Did("pull", p) /\ Last.ok
        /\ \E q \in DOMAIN dbs[p].context : q # dbs[p].peer /\ dbs[p].context[q] > 0

\* The step is a statement of the application on the replica p.
Edited(p) == calls'[p] = calls[p] + 1

\* The step is a pull of the replica p that reached the update of its clock.
Merged(p) ==
    /\ calls'["pull"] = calls["pull"] + 1
    /\ hist'[Len(hist')].p = p
    /\ ~dbs[p].attached

\* C13: on one replica every clock bump (a local insert, update or delete, the
\* start of a pull) leaves Local.ts strictly greater than before, in logical
\* mode and in physical mode for any reading of the wall clock, and no step
\* ever moves Local.ts backwards: a later local operation gets a strictly
\* greater ts than an earlier one.
C13_LocalOrder ==
    [][\A p \in Replicas : Present(p) =>
          /\ dbs'[p].ts >= dbs[p].ts
          /\ Edited(p) \/ Merged(p) => dbs'[p].ts > dbs[p].ts]_vars

\* The timestamps of the entries that S holds: row ids, column and foreign
\* key log entries, row and operation undo entries.
Stamps(S) ==
    {i.row[1] : i \in S.id} \cup {l.ts : l \in S.log} \cup {l.ts : l \in S.fklog}
        \cup {u.ts : u \in S.id_undo} \cup {u.ts : u \in S.undolog}

\* The timestamps of the operation ids that the replica minted between R and S.
Minted(R, S) ==
    {i.row[1] : i \in {j \in S.id \ R.id : j.row[2] = S.peer}}
        \cup {l.ts : l \in {m \in S.log \ R.log : m.peer = S.peer}}
        \cup {l.ts : l \in {m \in S.fklog \ R.fklog : m.peer = S.peer}}
        \cup {u.ts : u \in {o \in S.id_undo \ R.id_undo : o.peer = S.peer}}
        \cup {u.ts : u \in {o \in S.undolog \ R.undolog : o.peer = S.peer}}

\* The step is a pull of the replica p, or an exchange, that completed.
Observed(p) ==
    /\ calls'["pull"] + calls'["exchange"] = calls["pull"] + calls["exchange"] + 1
    /\ hist'[Len(hist')].ok
    /\ hist'[Len(hist')].kind = "pull" => hist'[Len(hist')].p = p

\* C14: after pull_from(p, q) completes, every operation id generated
\* afterwards on p is above every entry that q held at the time of the pull:
\* the pull leaves Local.ts of p at or above the timestamp of every entry of
\* q, Local.ts never decreases, and every operation id that a step generates
\* on p, by a local trigger or by a merge, is above Local.ts before the step.
C14_CrossReplica ==
    [][\A p \in Replicas : Present(p) =>
          /\ Observed(p) => \A t \in Stamps(dbs[Other(p)]) : dbs'[p].ts >= t
          /\ dbs'[p].ts >= dbs[p].ts
          /\ \A t \in Minted(dbs[p], dbs'[p]) : t > dbs[p].ts]_vars

\* C15: is_merging is false in every state in which no pull is executing on
\* the replica, that is between any two calls, whether the last pull
\* succeeded or failed.
C15_MergingFlag ==
    \A p \in Replicas : Present(p) => dbs[p].is_merging = 0

\* Every row id, column log entry and foreign key log entry of R is in S as
\* it was.
Kept(R, S) == R.id \subseteq S.id /\ R.log \subseteq S.log /\ R.fklog \subseteq S.fklog

Covers(S) ==
    /\ \A i \in S.id : i.row[2] \in DOMAIN S.context /\ S.context[i.row[2]] >= i.row[1]
    /\ \A l \in S.log : l.peer \in DOMAIN S.context /\ S.context[l.peer] >= l.ts
    /\ \A l \in S.fklog : l.peer \in DOMAIN S.context /\ S.context[l.peer] >= l.ts
    /\ \A u \in S.id_undo : u.peer \in DOMAIN S.context /\ S.context[u.peer] >= u.ts
    /\ \A u \in S.undolog : u.peer \in DOMAIN S.context /\ S.context[u.peer] >= u.ts

\* C17: the context covers the log: after every completed local operation
\* and every completed pull of a replica, the context of the replica is at
\* or above the timestamp of every row id, log entry and undo entry that the
\* replica stores, under the peer of the entry.
C17_ContextCovers ==
    \A p \in Replicas :
        Present(p) /\ Completed(p) /\ Last.kind \in {"edit", "pull"} => Covers(dbs[p])

\* An undo or log entry of S carries the operation id (Local.peer, Local.ts).
Stamped(S) ==
    \/ \E u \in S.id_undo : u.peer = S.peer /\ u.ts = S.ts
    \/ \E u \in S.undolog : u.peer = S.peer /\ u.ts = S.ts
    \/ \E l \in S.log : l.peer = S.peer /\ l.ts = S.ts
    \/ \E l \in S.fklog : l.peer = S.peer /\ l.ts = S.ts

\* The timestamp that S knows of its own peer
Own(S) == S.context[S.peer]

\* C18: after every completed pull of a replica, Context[Local.peer] equals
\* the maximum of its value before the pull and Local.ts at the end of the
\* pull.
C18_LocalContext ==
    [][\A p \in Replicas : Present(p) /\ Observed(p) =>
          Own(dbs'[p]) = Max(Own(dbs[p]), dbs'[p].ts)]_vars

\* C18, amended: after every completed pull of a replica, Context[Local.peer]
\* equals Local.ts at the end of the pull when the pull left an undo or log
\* entry stamped with the operation id (Local.peer, Local.ts), and keeps its
\* value of before the pull otherwise.
C18_LocalContextStamped ==
    [][\A p \in Replicas : Present(p) /\ Observed(p) =>
          Own(dbs'[p]) = IF Stamped(dbs'[p]) THEN dbs'[p].ts ELSE Own(dbs[p])]_vars

\* A pull completed whose conflict resolution stamped an entry with the clock
\* of the replica, and the context of the replica for its own peer is at that
\* clock.
C18_Witness ==
    \E p \in Replicas :
        /\ Present(p) /\ Did("pull", p) /\ Last.ok
        /\ Stamped(dbs[p]) /\ Own(dbs[p]) = dbs[p].ts

\* C19: init on a schema that uses a SET DEFAULT referential action fails
\* and makes no state change to the database: no shadow table, view or
\* trigger and no peer allocation is left behind.
C19_InitRejects ==
    SET_DEFAULT \in {schema.on_delete, schema.on_update} /\ Did("init", "a") =>
        /\ ~Last.ok
        /\ dbs["a"].installed = {}
        /\ dbs["a"].peer = 0

\* The step is a call of pull_from(p, q).
Pulling(p, q) ==
    /\ calls'["pull"] = calls["pull"] + 1
    /\ hist'[Len(hist')].p = p /\ hist'[Len(hist')].q = q

\* Between R and S the remote changed only by context entries of timestamp 0
\* for peers that it did not know and that the context ctx knows.
Untouched(R, S, ctx) ==
    /\ [S EXCEPT !.context = R.context] = R
    /\ \A r \in DOMAIN R.context : r \in DOMAIN S.context /\ S.context[r] = R.context[r]
    /\ \A r \in DOMAIN S.context \ DOMAIN R.context : r \in DOMAIN ctx /\ S.context[r] = 0

\* C20: pull_from(p, q) changes the remote q only by inserting context
\* entries of timestamp 0 for peers known to p and unknown to q; it changes
\* no existing context entry and nothing else of q, and after the pull q
\* knows every peer that p knows, so that repeating the pull inserts nothing.
C20_RemoteFrame ==
    [][\A p \in Replicas : Pulling(p, Other(p)) =>
          /\ Untouched(dbs[Other(p)], dbs'[Other(p)], dbs[p].context)
          /\ ~dbs[p].attached => DOMAIN dbs'[p].context \subseteq DOMAIN dbs'[Other(p)].context]_vars

\* The first pull, of b from a, inserted the peer of b into the context of a
\* with the timestamp 0.
C20_Witness ==
    /\ Did("pull", "b") /\ calls["pull"] = 1
    /\ PeerOf["b"] \in DOMAIN dbs["a"].context
    /\ dbs["a"].context[PeerOf["b"]] = 0

\* C3: pull_from is all-or-nothing: when a statement of the merge fails, the
\* state of the local replica, its user tables, its shadow tables, its
\* context and its clock and is_merging flag, is the state of before the
\* pull.
C3_AllOrNothing ==
    [][\A p \in Replicas :
          Pulling(p, Other(p)) /\ ~hist'[Len(hist')].ok => dbs'[p] = dbs[p]]_vars

\* The row of the table t is visible in S: its undo length is even and a row
\* of the user table is mapped to it.
Visible(S, t, row) ==
    /\ Even(row_ul(S, row))
    /\ \E e \in S.idT[t] : e.row = row /\ \E r \in S.tbl[t] : r.rowid = e.rowid

\* The foreign key of every visible row of Y is null in the log and in the
\* user table, or targets a visible row of X.
Referential(S, sch) ==
    \A r \in S.tbl["Y"] :
        Visible(S, "Y", RowOf(S, "Y", r.rowid)) =>
            \E f \in synql_fklog_effective(S, sch) :
                /\ f.row = RowOf(S, "Y", r.rowid)
                /\ \/ f.frow = NullRow /\ r.x = NULL
                   \/ f.frow # NullRow /\ Visible(S, "X", f.frow)

\* C6: referential integrity: after every completed operation, a local edit
\* or a pull, every visible row either has a null target in the effective
\* foreign key log and NULL in its foreign key column, or targets a row that
\* is itself visible.
C6_ReferentialIntegrity ==
    \A p \in Replicas : Present(p) /\ Completed(p) => Referential(dbs[p], schema)

\* The user tables, the shadow tables and the context of R and of S are the
\* same.
Same(R, S) ==
    /\ R.tbl = S.tbl /\ R.idT = S.idT
    /\ R.id = S.id /\ R.log = S.log /\ R.fklog = S.fklog
    /\ R.id_undo = S.id_undo /\ R.undolog = S.undolog
    /\ R.context = S.context

\* C2: idempotence: when pull_from(p, q) is run twice in a row, q unchanged
\* in between, the second call leaves p unchanged: its user tables, row ids,
\* logs, undo entries with their undo lengths, row maps and context are the
\* same as after the first call.
C2_Idempotence ==
    [][\A p \in Replicas :
          /\ Did("pull", p) /\ Last.ok
          /\ Pulling(p, Other(p)) /\ hist'[Len(hist')].ok
          => Same(dbs[p], dbs'[p])]_vars

\* The rows of X that hold the same effective key as another row of X
Rivals(S, row) ==
    {i.row : i \in {j \in S.id : /\ j.tbl = "X" /\ j.row # row
                                 /\ select_X(S, j.row) # NULL
                                 /\ select_X(S, j.row) = select_X(S, row)}}

\* C4: uniqueness winner: after a merge, of two rows with equal effective
\* keys on a uniqueness index exactly one is undone (odd undo length), the
\* one with the greater row id, and this still holds after any further pull:
\* the row with the smaller row id is never the only one undone, and the two
\* rows are never both visible.
C4_UniquenessWinner ==
    \A p \in Replicas : Present(p) /\ Did("pull", p) /\ Last.ok =>
        \A i \in dbs[p].id : \A o \in Rivals(dbs[p], i.row) :
            RowGT(o, i.row) => Odd(row_ul(dbs[p], o)) \/ Odd(row_ul(dbs[p], i.row))

\* The identities of the visible rows of the table t
VisibleRows(S, t) == {i.row : i \in {j \in S.id : j.tbl = t /\ Visible(S, t, j.row)}}

\* The value that the user table of t stores for a visible row
Stored(S, t, row) ==
    LET e == CHOOSE e \in S.idT[t] : e.row = row /\ \E r \in S.tbl[t] : r.rowid = e.rowid
    IN (CHOOSE r \in S.tbl[t] : r.rowid = e.rowid).x

\* C9: one-way replication: when b was cloned from a and performs no local
\* operation, then after any local inserts, updates and deletes of a and
\* pull_from(b, a), b has the same visible row identities as a in every
\* table, and every visible row has on b the column values and the foreign
\* key values that it has on a.
C9_OneWay ==
    /\ Present("b") /\ Did("pull", "b") /\ Last.ok
    /\ calls["b"] = 0 /\ calls["pull"] = 1
    => \A t \in TableSet :
          /\ VisibleRows(dbs["b"], t) = VisibleRows(dbs["a"], t)
          /\ \A row \in VisibleRows(dbs["a"], t) :
                Stored(dbs["b"], t, row) = Stored(dbs["a"], t, row)

\* The number of rows of the table t that hold the value v
Count(S, t, v) == Cardinality({r \in S.tbl[t] : r.x = v})

\* The user tables of R and of S hold the same rows, each as many times,
\* whatever their local row handles.
BagEqual(R, S) ==
    \A t \in TableSet : \A v \in Vals \cup {NULL} : Count(R, t, v) = Count(S, t, v)

\* The last three calls were pull_from(p, q); pull_from(q, p); pull_from(p, q)
\* and they completed.
Converged(p, q) ==
    /\ Len(hist) = 3
    /\ \A k \in 1..3 : hist[k].kind = "pull" /\ hist[k].ok
    /\ hist[1].p = p /\ hist[2].p = q /\ hist[3].p = p

\* C1: convergence: after pull_from(p, q); pull_from(q, p); pull_from(p, q)
\* the user tables of the two replicas are bag-equal: the same multiset of
\* user rows in every table.
C1_Convergence ==
    \A p \in Replicas : Converged(p, Other(p)) => BagEqual(dbs[p], dbs[Other(p)])

\* The value of the latest column log entry of the row that is not undone,
\* the greater peer winning between equal timestamps.
Projected(S, row) ==
    LET ls == Latest({l \in S.log : l.row = row /\ l.field = "x" /\ Even(op_ul(S, l.ts, l.peer))})
    IN {l.val : l \in ls}

\* C7: the log-projection law: after every completed operation, the value
\* that the user table stores in a replicated column of a visible row is the
\* value of the column log entry of the row with the greatest (ts, peer) among
\* those whose undo length is even.
C7_LogProjection ==
    \A p \in Replicas : Present(p) /\ Completed(p) =>
        \A r \in dbs[p].tbl["X"] :
            Visible(dbs[p], "X", RowOf(dbs[p], "X", r.rowid)) =>
                Projected(dbs[p], RowOf(dbs[p], "X", r.rowid)) = {r.x}

\* The rows of the table t as the merger rebuilds them from the shadow
\* tables alone: the rows whose undo length is even, with the values that the
\* selectors of the columns give.
Regenerated(S, sch, t) ==
    {[row |-> i.row, x |-> IF t = "X" THEN select_X(S, i.row) ELSE select_Y(S, sch, i.row)]
        : i \in {j \in S.id : j.tbl = t /\ Even(row_ul(S, j.row))}}

\* The rows that the user table t stores, under their row identities
Materialized(S, t) == {[row |-> RowOf(S, t, r.rowid), x |-> r.x] : r \in S.tbl[t]}

\* C8: causal regeneration: in the final state of a scenario of local
\* operations and pulls, rebuilding the user tables from the shadow tables
\* alone gives exactly the visible user rows that are stored, their foreign
\* key values included.
C8_Regeneration ==
    \A p \in Replicas : Present(p) /\ Completed(p) =>
        \A t \in TableSet : Regenerated(dbs[p], schema, t) = Materialized(dbs[p], t)

\* The pairs (y, r) of a visible row y of Y and of the visible row r of X
\* that it references in S, by an entry that R does not hold, while R holds r
\* deleted.
Restricted(S, R, sch) ==
    {<<f.row, f.frow>> : f \in {l \in synql_fklog_effective(S, sch) :
        /\ l.frow # NullRow /\ l.on_delete = RESTRICT
        /\ Visible(S, "Y", l.row) /\ Visible(S, "X", l.frow)
        /\ ~\E m \in R.fklog : m.ts = l.ts /\ m.peer = l.peer
        /\ Odd(row_ul(R, l.frow)) /\ Even(row_ul(R, l.row))}}

\* The step is a crossed pull of the two replicas that completed.
Mutual == calls'["exchange"] = calls["exchange"] + 1 /\ hist'[Len(hist')].ok

\* C5: restrict preservation: when a replica holds a visible row that
\* references the row r through an ON DELETE RESTRICT foreign key and the
\* other replica has concurrently deleted r, then after the two replicas
\* merged with each other r and the referencing row are visible on both.
C5_RestrictPreservation ==
    [][Mutual =>
        \A p \in Replicas : \A c \in Restricted(dbs[p], dbs[Other(p)], schema) :
            \A q \in Replicas : Visible(dbs'[q], "Y", c[1]) /\ Visible(dbs'[q], "X", c[2])]_vars

\* The undo lengths of the rows and of the operations
Lengths(S) ==
    [rows |-> {<<u.row, u.ul>> : u \in S.id_undo},
     ops |-> {<<u.obj, u.ul>> : u \in S.undolog}]

\* The replicas diverged by local operations only and then each pulled the
\* state that the other had before it merged.
Crossed ==
    /\ Did("exchange", "a") /\ Last.ok
    /\ calls["pull"] = 0

\* C10: symmetric conflict resolution: when a and b diverge from a common
\* state by local operations only and each then pulls the state that the
\* other had before it merged, the two replicas have the same visible row
\* identities in every table, the same undo length for every row and the
\* same undo length for every log entry.
C10_Symmetric ==
    Crossed =>
        /\ \A t \in TableSet : VisibleRows(dbs["a"], t) = VisibleRows(dbs["b"], t)
        /\ Lengths(dbs["a"]) = Lengths(dbs["b"])

\* The entries of the two effective views of S
Effective(S, sch) == synql_log_effective(S) \cup synql_fklog_effective(S, sch)

\* C21: the effective views hide deleted rows: every entry of
\* _synql_log_effective and of _synql_fklog_effective has an even undo length
\* of its own and belongs to a row whose undo length is even.
C21_EffectiveHidesDeleted ==
    \A p \in Replicas : Present(p) =>
        \A l \in Effective(dbs[p], schema) : Even(l.ul) /\ Even(l.row_ul)

\* The step is a call of pull_from(p, q) that completed.
PullDone(p, q) == Pulling(p, q) /\ hist'[Len(hist')].ok

\* The database S of a replica that pulls from Q, when rule D starts
BeforeUniqueness(S, Q, sch) ==
    LET E == extern(S, Q)
        s1 == on_update_restrict(pull_extern(attach(S), Q), E, sch)
    IN on_update_set_null(on_delete_restrict(s1, sch), E, sch)

\* The rows that rule D undoes in S: their undo length changes.
Undone(S, sch) ==
    {i.row : i \in {j \in S.id : row_ul(uniqueness_conflicts(S, sch), j.row) # row_ul(S, j.row)}}

\* The rows of S with a smaller row id than row that hold its key and whose
\* undo length is even.
VisibleRivals(S, row) ==
    {i.row : i \in {j \in S.id :
        /\ j.tbl = "X" /\ RowGT(row, j.row) /\ Even(row_ul(S, j.row))
        /\ select_X(S, j.row) # NULL /\ select_X(S, j.row) = select_X(S, row)}}

\* C22: rule D undoes a row only when the row that it collides with is
\* visible: a row with an even undo length is undone by the resolution of
\* uniqueness conflicts only if a row with an even undo length holds its key.
C22_UndoneByVisible ==
    [][\A p \in Replicas : PullDone(p, Other(p)) =>
        \A r \in Undone(BeforeUniqueness(dbs[p], dbs[Other(p)], schema), schema) :
            Even(row_ul(BeforeUniqueness(dbs[p], dbs[Other(p)], schema), r)) =>
                VisibleRivals(BeforeUniqueness(dbs[p], dbs[Other(p)], schema), r) # {}]_vars

\* The row r and the row o hold in the field f equal values that are not
\* NULL, or the same target that is not null.
Agree(S, sch, r, o, f) ==
    \E l \in synql_unified_log_effective(S, sch) :
        \E m \in synql_unified_log_effective(S, sch) :
            /\ l.row = r /\ m.row = o /\ l.field = f /\ m.field = f
            /\ \/ l.val # NULL /\ l.val = m.val
               \/ l.frow # NullRow /\ l.frow = m.frow

\* The fields of an index of T
FieldsOf(idx) == {u.field : u \in {v \in Covering : v.tbl_index = idx}}

\* C23: rule D undoes a row only if a row with a smaller row id agrees with
\* it on every field of one and the same uniqueness index, with values that
\* are not NULL or with the same target: rows that agree on a part of an
\* index, on fields of different indexes or on NULL stay visible.
C23_WholeIndex ==
    Did("resolve", "a") =>
        \A r \in RowsT : row_ul(dbs["a"], r) # 0 =>
            \E o \in RowsT : \E idx \in {u.tbl_index : u \in Covering} :
                /\ RowGT(r, o)
                /\ \A f \in FieldsOf(idx) : Agree(dbs["a"], schema, r, o, f)

\* Rule D ran and undid a row, and left visible a row that agrees with a
\* smaller one on a field of each index.
C23_Witness ==
    /\ Did("resolve", "a")
    /\ row_ul(dbs["a"], <<2, 1>>) = 1
    /\ row_ul(dbs["a"], <<1, 2>>) = 0
    /\ Agree(dbs["a"], schema, <<1, 2>>, <<1, 1>>, "a")
    /\ Agree(dbs["a"], schema, <<1, 2>>, <<1, 1>>, "fk")

\* The database S of a replica that pulls from Q, when the conflict
\* resolution starts
BeforeResolution(S, Q) == pull_extern(attach(S), Q)

\* The entries of the log that rule A undoes when S pulls from Q
Restrained(S, Q, sch) ==
    {l \in BeforeResolution(S, Q).log :
        op_ul(on_update_restrict(BeforeResolution(S, Q), extern(S, Q), sch), l.ts, l.peer)
            # op_ul(BeforeResolution(S, Q), l.ts, l.peer)}

\* The references under ON UPDATE RESTRICT to the row of the entry l that
\* are concurrent with it
ConcurrentRefs(S, Q, sch, l) ==
    {f \in synql_fklog_effective(BeforeResolution(S, Q), sch) :
        /\ f.on_update = RESTRICT /\ f.frow = l.row
        /\ concurrent(BeforeResolution(S, Q), extern(S, Q), l, f)}

\* C24: rule A acts on concurrent pairs only: pull_from(p, q) undoes an
\* entry of the log by rule A only if the entry is concurrent with an
\* effective reference under ON UPDATE RESTRICT to its row, one of the two
\* newer than the context of p and the other newer than the context of q.
C24_ConcurrentOnly ==
    [][\A p \in Replicas : PullDone(p, Other(p)) =>
        \A l \in Restrained(dbs[p], dbs[Other(p)], schema) :
            ConcurrentRefs(dbs[p], dbs[Other(p)], schema, l) # {}]_vars

\* The context of the replica p once it knows the peers of the other replica
Seen(p) == add_missing_peers(dbs[p].context, dbs[Other(p)].context)

\* The entries of the updates of the column x of the row r that the replica
\* p made and that the other replica has not seen
ConcurrentUpdates(p, r) ==
    {l \in dbs[p].log :
        /\ l.row = r /\ l.field = "x" /\ <<l.ts, l.peer>> # r
        /\ After(Seen(Other(p)), l.ts, l.peer)}

\* The rows of Y that the replica q inserted with a reference to the row r,
\* that p has not seen and that still reference r
ConcurrentInserts(q, r) ==
    {f.row : f \in {g \in synql_fklog_effective(dbs[q], schema) :
        /\ g.frow = r /\ g.on_update = RESTRICT /\ <<g.ts, g.peer>> = g.row
        /\ After(Seen(Other(q)), g.ts, g.peer)
        /\ Visible(dbs[q], "Y", g.row)}}

\* The value of the column x of the row r in S without the updates of p that
\* the other replica has not seen
Before(S, p, r) ==
    LET ls == Latest({l \in S.log : l.row = r /\ l.field = "x"} \ ConcurrentUpdates(p, r))
    IN {l.val : l \in ls}

\* C25: the outcome of rule A: when a replica updates the column x of the
\* row r and the other concurrently inserts a row that references r under
\* ON UPDATE RESTRICT, then after each has pulled the other every one of
\* these updates has an odd undo length on both replicas, r holds the value
\* that it had before the updates and the referencing row is visible.
C25_UpdatesUndone ==
    [][Mutual =>
        \A p \in Replicas : \A i \in dbs[p].id :
            \A y \in ConcurrentInserts(Other(p), i.row) :
                ConcurrentUpdates(p, i.row) # {} =>
                    \A z \in Replicas :
                        /\ \A l \in ConcurrentUpdates(p, i.row) : Odd(op_ul(dbs'[z], l.ts, l.peer))
                        /\ Visible(dbs'[z], "Y", y)
                        /\ Visible(dbs'[z], "X", i.row)
                        /\ Stored(dbs'[z], "X", i.row) \in Before(dbs'[z], p, i.row)]_vars

\* The rows that a row references, in the effective foreign-key log of S,
\* through a foreign key of one of the actions
RefsOf(S, sch, r, actions) ==
    {f.frow : f \in {g \in synql_fklog_effective(S, sch) :
                        g.row = r /\ g.frow # NullRow /\ g.on_delete \in actions}}

\* The rows that the rows reach through ON DELETE CASCADE references
RECURSIVE CascadeTargets(_, _, _)
CascadeTargets(S, sch, rows) ==
    LET step == UNION {RefsOf(S, sch, r, {CASCADE}) : r \in rows}
    IN IF step \subseteq rows THEN rows ELSE CascadeTargets(S, sch, rows \cup step)

\* C26: when a visible row z references a row y through ON DELETE RESTRICT,
\* y reaches a row x through a chain of ON DELETE CASCADE references, and x
\* was deleted, the conflict resolution increments the undo length of x by
\* exactly one, to an even value, and z and the rows of the chain from y to
\* x are visible afterwards.
C26_RestrictClosure ==
    [][\A z \in ChainRows : Even(row_ul(dbs["a"], z)) =>
          \A y \in RefsOf(dbs["a"], schema, z, {RESTRICT}) :
          \A x \in CascadeTargets(dbs["a"], schema, {y}) \ {y} :
             Odd(row_ul(dbs["a"], x)) =>
                /\ row_ul(dbs'["a"], x) = row_ul(dbs["a"], x) + 1
                /\ Even(row_ul(dbs'["a"], z))
                /\ \A r \in CascadeTargets(dbs["a"], schema, {y}) :
                      x \in CascadeTargets(dbs["a"], schema, {r}) => Even(row_ul(dbs'["a"], r))]_vars

\* The deleted rows of X that only superseded entries of the foreign-key log
\* target, when S has merged the log of Q: the latest entry of every row that
\* referenced them targets another row.
Superseded(S, Q, sch) ==
    LET M == BeforeResolution(S, Q)
        eff == synql_fklog_effective(M, sch)
    IN {i.row : i \in {j \in M.id :
          /\ j.tbl = "X" /\ Odd(row_ul(M, j.row))
          /\ \E f \in M.fklog : f.frow = j.row
          /\ \A f \in M.fklog : f.frow = j.row =>
                \E g \in eff : g.row = f.row /\ g.frow \notin {j.row, NullRow}}}

\* C27: rule B considers effective references only: a deleted row that only
\* superseded entries of the foreign-key log target is not redone by the
\* pull; it keeps its odd undo length and has no row in the user table of the
\* replica that pulled.
C27_EffectiveOnly ==
    [][\A p \in Replicas : PullDone(p, Other(p)) => \A x \in Superseded(dbs[p], dbs[Other(p)], schema) :
          /\ row_ul(dbs'[p], x) = row_ul(BeforeResolution(dbs[p], dbs[Other(p)]), x)
          /\ ~Visible(dbs'[p], "X", x)]_vars

\* The rows that rule B protects in S: the targets of the ON DELETE RESTRICT
\* references of the visible rows and what they reach through ON DELETE
\* CASCADE
Protected(S, sch) ==
    CascadeTargets(S, sch,
        UNION {RefsOf(S, sch, z, {RESTRICT}) : z \in {i.row : i \in {j \in S.id : Even(row_ul(S, j.row))}}})

\* The visible rows of S that reference one of the rows through a foreign key
\* of one of the actions
Referrers(S, sch, rows, actions) ==
    {i.row : i \in {j \in S.id : Even(row_ul(S, j.row)) /\ RefsOf(S, sch, j.row, actions) \cap rows # {}}}

\* C28: when a visible row references through ON DELETE CASCADE a row that
\* was deleted, and that rule B does not protect, the conflict resolution
\* undoes the referencing row, and every visible row that references it
\* through a foreign key that is not ON DELETE SET NULL: their undo lengths
\* are odd afterwards.
C28_CascadeClosure ==
    [][\A r \in ChainRows \ Protected(dbs["a"], schema) : Odd(row_ul(dbs["a"], r)) =>
          \A y \in Referrers(dbs["a"], schema, {r}, {CASCADE}) :
             /\ Odd(row_ul(dbs'["a"], y))
             /\ \A z \in Referrers(dbs["a"], schema, {y}, {CASCADE, RESTRICT}) :
                   Odd(row_ul(dbs'["a"], z))]_vars

\* The rows of S whose undo length is odd
Deleted(S) == {i.row : i \in {j \in S.id : Odd(row_ul(S, j.row))}}

\* C29: ON DELETE SET NULL stops the cascade, at the first step of the closure
\* and at every later one: the conflict resolution leaves visible a row all
\* of whose references to the rows that are undone, before or by the
\* resolution, go through ON DELETE SET NULL foreign keys.
C29_SetNullStops ==
    [][\A z \in ChainRows :
          /\ Even(row_ul(dbs["a"], z))
          /\ RefsOf(dbs["a"], schema, z, {SET_NULL}) \cap Deleted(dbs'["a"]) # {}
          /\ RefsOf(dbs["a"], schema, z, {CASCADE, RESTRICT}) \cap Deleted(dbs'["a"]) = {}
          => Even(row_ul(dbs'["a"], z))]_vars

\* The rows of Y that the replica q inserted, unknown to p, with a reference
\* to a row of X that p deleted, unknown to q
NulledRefs(p, q) ==
    {f.row : f \in {g \in synql_fklog_effective(dbs[q], schema) :
        /\ Visible(dbs[q], "Y", g.row) /\ \A i \in dbs[p].id : i.row # g.row
        /\ g.frow # NullRow /\ Odd(row_ul(dbs[p], g.frow)) /\ Even(row_ul(dbs[q], g.frow))}}

\* The entries of the foreign-key log of S for the row
EntriesOf(S, row) == {f \in S.fklog : f.row = row}

\* C30 as stated: in the scenario of a delete of a row of X concurrent with
\* the insert of a row of Y that references it under ON DELETE SET NULL, the
\* merge emits a new entry of the foreign-key log with a null target for the
\* row of Y.
C30_NullEntryEmitted ==
    [][Mutual => \A p \in Replicas : \A y \in NulledRefs(p, Other(p)) : \A n \in Replicas :
          \E f \in EntriesOf(dbs'[n], y) \ EntriesOf(dbs[Other(p)], y) : f.frow = NullRow]_vars

\* C30 amended: in that scenario the merge emits no entry of the foreign-key
\* log: on both replicas the log of the row of Y keeps the entries that the
\* inserting replica wrote, whose latest one targets the deleted row, and the
\* user table holds the row of Y with x = NULL.
C30_NoEntryEmitted ==
    [][Mutual => \A p \in Replicas : \A y \in NulledRefs(p, Other(p)) : \A n \in Replicas :
          /\ EntriesOf(dbs'[n], y) = EntriesOf(dbs[Other(p)], y)
          /\ Visible(dbs'[n], "Y", y) /\ Stored(dbs'[n], "Y", y) = NULL]_vars

\* The two replicas merged and hold a visible row of Y, with x = NULL, whose
\* single entry of the foreign-key log targets a deleted row of X.
C30_Witness ==
    /\ hist # <<>> /\ Last.kind = "exchange" /\ Last.ok
    /\ \A n \in Replicas : \E f \in synql_fklog_effective(dbs[n], schema) :
          /\ Visible(dbs[n], "Y", f.row) /\ Stored(dbs[n], "Y", f.row) = NULL
          /\ f.frow # NullRow /\ Odd(row_ul(dbs[n], f.frow))
          /\ EntriesOf(dbs[n], f.row) = {g \in dbs[n].fklog : g.ts = f.ts /\ g.peer = f.peer}

\* The updates of the key of the row r that the replica p made, unknown to q
KeyUpdates(p, q, r) ==
    {l \in dbs[p].log : /\ l.row = r /\ l.field = "x" /\ <<l.ts, l.peer>> # r
                        /\ l \notin dbs[q].log /\ Even(op_ul(dbs[p], l.ts, l.peer))}

\* The rows of Y that the replica q inserted, unknown to p, with a reference
\* to a visible row of X whose key p updated, unknown to q
OutdatedRefs(p, q) ==
    {f.row : f \in {g \in synql_fklog_effective(dbs[q], schema) :
        /\ Visible(dbs[q], "Y", g.row) /\ \A i \in dbs[p].id : i.row # g.row
        /\ g.frow # NullRow /\ Visible(dbs[p], "X", g.frow) /\ Visible(dbs[q], "X", g.frow)
        /\ KeyUpdates(p, q, g.frow) # {}}}

\* The largest ts of the contexts of the two replicas
Frontier ==
    SetMax(UNION {{dbs[n].context[k] : k \in DOMAIN dbs[n].context} : n \in Replicas} \cup {0})

\* C31: rule C: when a replica updates the key of a row of X and the other
\* concurrently inserts a row of Y that references it under ON UPDATE SET
\* NULL, each pull appends an entry of the foreign-key log with a null target
\* for the row of Y, stamped by the pulling replica with a ts of its bumped
\* clock that exceeds every ts of the two contexts; afterwards the row of Y
\* holds x = NULL and the row of X its updated key on both replicas.
C31_NullOnUpdate ==
    [][Mutual => \A p \in Replicas : \A y \in OutdatedRefs(p, Other(p)) : \A n \in Replicas :
          /\ \E f \in EntriesOf(dbs'[n], y) \ (dbs[p].fklog \cup dbs[Other(p)].fklog) :
                /\ f.frow = NullRow /\ f.peer = PeerOf[n]
                /\ f.ts > Frontier /\ f.ts > dbs[n].ts /\ f.ts <= dbs'[n].ts
          /\ Visible(dbs'[n], "Y", y) /\ Stored(dbs'[n], "Y", y) = NULL
          /\ \A f \in synql_fklog_effective(dbs[Other(p)], schema) : f.row = y =>
                /\ Visible(dbs'[n], "X", f.frow)
                /\ \E l \in Latest(KeyUpdates(p, Other(p), f.frow)) :
                      Stored(dbs'[n], "X", f.frow) = l.val]_vars

\* The rows of X whose key the replica p updated, unknown to q
Rekeyed(p, q) == {i.row : i \in {j \in dbs[p].id : KeyUpdates(p, q, j.row) # {}}}

\* C32: ON UPDATE CASCADE across replicas: when the update of the key of a
\* row r of X reaches a replica by a pull, every row of Y with an even undo
\* length whose effective reference targets r is in the user table of that
\* replica with the new key of r in its foreign-key column, its reference
\* still targets r, and the pull created no entry of the foreign-key log for
\* it.
C32_CascadeOnUpdate ==
    [][Mutual => \A p \in Replicas : \A r \in Rekeyed(p, Other(p)) :
          \A f \in synql_fklog_effective(dbs'[Other(p)], schema) :
             f.frow = r /\ Even(f.row_ul) /\ Visible(dbs'[Other(p)], "X", r) =>
                /\ Visible(dbs'[Other(p)], "Y", f.row)
                /\ Stored(dbs'[Other(p)], "Y", f.row) = Stored(dbs'[Other(p)], "X", r)
                /\ EntriesOf(dbs'[Other(p)], f.row)
                      = EntriesOf(dbs["a"], f.row) \cup EntriesOf(dbs["b"], f.row)]_vars

\* The RowId, ColLog and FkLog entries of Q are in S.
Imported(S, Q) == Q.id \subseteq S.id /\ Q.log \subseteq S.log /\ Q.fklog \subseteq S.fklog

OpUl(S, op) == op_ul(S, op[1], op[2])

\* The rows and the log entries that S knows
RowsOf(S) == {i.row : i \in S.id}
OpsOf(S) == {<<l.ts, l.peer>> : l \in S.log \cup S.fklog}

\* No undo length of S is greater than that of T.
Grown(S, T) ==
    /\ \A r \in RowsOf(S) : row_ul(S, r) <= row_ul(T, r)
    /\ \A o \in OpsOf(S) : OpUl(S, o) <= OpUl(T, o)

\* C34: the undo length is a grow-only counter: a completed pull leaves in
\* the puller, for every row and every log entry, an undo length at least
\* that of the puller before the pull and that of the remote, and no call
\* decreases an undo length.
C34_UndoGrows ==
    [][/\ \A p \in Replicas : Present(p) => Grown(dbs[p], dbs'[p])
       /\ \A p \in Replicas : PullDone(p, Other(p)) => Grown(dbs[Other(p)], dbs'[p])]_vars

\* A completed pull raised the undo length of a row of the puller to the
\* length that the remote had given it.
C34_Witness ==
    /\ hist # <<>> /\ Last.kind = "pull" /\ Last.ok
    /\ \E u \in dbs[Last.p].id_undo :
          u.peer # PeerOf[Last.p] /\ u.ul > 0 /\ u \in dbs[Last.q].id_undo

\* The targets of the effective foreign-key entries of a row of Y in S
TargetsOf(S, row) == {f.frow : f \in {g \in synql_fklog_effective(S, schema) : g.row = row}}

\* The statement of p deleted the row of X that held the key v.
Unreferred(p, v) ==
    /\ target(dbs[p], v) # NullRow
    /\ ~Visible(dbs'[p], "X", target(dbs[p], v))

\* C35: foreign-key updates are logged: when a local statement of a replica
\* that enforces its foreign keys changes the foreign-key column of a row of
\* Y whose effective target is the row that holds the key that it
\* references, a new entry of the foreign-key log makes the row that now
\* holds the referenced key the effective target of the row of Y, unless
\* the new value is the NULL left by the deletion of the referred row;
\* re-pointing a row to an earlier target is logged too.
C35_UpdateLogged ==
    [][\A p \in Replicas : Present(p) /\ dbs[p].fk /\ Edited(p) =>
          \A r \in dbs[p].tbl["Y"] : \A s \in dbs'[p].tbl["Y"] :
             /\ s.rowid = r.rowid /\ s.x # r.x
             /\ RowOf(dbs'[p], "Y", s.rowid) = RowOf(dbs[p], "Y", r.rowid)
             /\ TargetsOf(dbs[p], RowOf(dbs[p], "Y", r.rowid)) = {target(dbs[p], r.x)}
             /\ target(dbs[p], r.x) # target(dbs'[p], s.x)
             /\ ~(s.x = NULL /\ Unreferred(p, r.x))
             => /\ TargetsOf(dbs'[p], RowOf(dbs[p], "Y", r.rowid)) = {target(dbs'[p], s.x)}
                /\ EntriesOf(dbs'[p], RowOf(dbs[p], "Y", r.rowid))
                      # EntriesOf(dbs[p], RowOf(dbs[p], "Y", r.rowid))]_vars

\* The stamps (ts, peer) that the shadow tables of S hold
OpStamps(S) ==
    {i.row : i \in S.id} \cup {<<l.ts, l.peer>> : l \in S.log \cup S.fklog}
       \cup {<<u.ts, u.peer>> : u \in S.id_undo \cup S.undolog}

\* The rows that a statement of p inserted into the user table t
Inserted(p, t) ==
    {s \in dbs'[p].tbl[t] : ~\E r \in dbs[p].tbl[t] : r.rowid = s.rowid}

\* The entries that the insertion of the row s into t must add to the logs
\* of S under the operation op: one value per replicated column, one target
\* per foreign key.
InsertLog(S, t, s, op) ==
    IF t = "X" THEN {[ts |-> op[1], peer |-> op[2], row |-> op, field |-> "x", val |-> s.x]}
    ELSE {[ts |-> op[1], peer |-> op[2], row |-> op, field |-> "fk", frow |-> target(S, s.x)]}

\* C36: local insert: a row inserted into a table outside a merge bumps the
\* clock to a fresh ts and creates, under the operation (ts, peer), one row
\* identity of that table equal to the operation, one mapping of the new
\* row handle to it, one log entry for the column x of X with the inserted
\* value, or one foreign-key entry for Y that targets the row of X holding
\* the referenced key, null when there is none; afterwards the context of
\* the local peer is ts.
C36_LocalInsert ==
    [][\A p \in Replicas : \A t \in {"X", "Y"} :
          Present(p) /\ Edited(p) /\ dbs[p].is_merging = 0 =>
             \A s \in Inserted(p, t) :
                LET S == dbs[p]
                    T == dbs'[p]
                    op == <<T.ts, T.peer>>
                IN /\ T.ts > S.ts /\ T.peer = S.peer /\ op \notin OpStamps(S)
                   /\ T.id \ S.id = {[row |-> op, tbl |-> t]}
                   /\ {e \in T.idT[t] : e.rowid = s.rowid} = {[rowid |-> s.rowid, row |-> op]}
                   /\ (T.log \ S.log) \cup (T.fklog \ S.fklog) = InsertLog(T, t, s, op)
                   /\ T.context[T.peer] = T.ts]_vars

\* A statement outside a merge inserted a row of Y that references a row of X.
C36_Witness ==
    /\ hist # <<>> /\ Last.kind = "edit"
    /\ dbs[Last.p].is_merging = 0
    /\ \E f \in dbs[Last.p].fklog :
          /\ <<f.ts, f.peer>> = <<dbs[Last.p].ts, dbs[Last.p].peer>>
          /\ f.row = <<f.ts, f.peer>> /\ f.frow # NullRow

\* The visible rows of the table t that a statement of p deleted
Removed(p, t) ==
    {RowOf(dbs[p], t, r.rowid) : r \in {s \in dbs[p].tbl[t] :
        /\ Visible(dbs[p], t, RowOf(dbs[p], t, s.rowid))
        /\ ~\E q \in dbs'[p].tbl[t] : q.rowid = s.rowid}}

\* The statement of p deleted one row and changed no other row.
SingleDelete(p) ==
    \E t \in {"X", "Y"} :
        /\ Cardinality(dbs[p].tbl[t] \ dbs'[p].tbl[t]) = 1
        /\ dbs'[p].tbl[t] \subseteq dbs[p].tbl[t]
        /\ \A o \in {"X", "Y"} \ {t} : dbs'[p].tbl[o] = dbs[p].tbl[o]

\* C37: local delete: the deletion of a visible row outside a merge removes
\* the mapping of its row handle, bumps the clock, sets the context of the
\* local peer to the new ts and adds exactly one to the undo length of the
\* row, 1 on the first deletion, under a stamp (ts, peer) of the bumped
\* clock; the new undo length is odd, and no ColLog or FkLog entry is added
\* or removed.
C37_LocalDelete ==
    [][\A p \in Replicas : \A t \in {"X", "Y"} :
          Present(p) /\ Edited(p) /\ dbs[p].is_merging = 0 =>
             \A row \in Removed(p, t) :
                LET S == dbs[p]
                    T == dbs'[p]
                IN /\ ~\E e \in T.idT[t] : e.row = row
                   /\ T.ts > S.ts /\ T.context[T.peer] = T.ts
                   /\ row_ul(T, row) = row_ul(S, row) + 1 /\ Odd(row_ul(T, row))
                   /\ \A u \in row_undo(T, row) :
                         /\ u.peer = S.peer /\ u.ts > S.ts /\ u.ts <= T.ts
                         /\ SingleDelete(p) => u.ts = T.ts
                   /\ T.log = S.log /\ T.fklog = S.fklog]_vars

\* A statement outside a merge deleted a row that had been deleted and
\* redone: its undo length went from 2 to 3.
C37_Witness ==
    /\ hist # <<>> /\ Last.kind = "edit" /\ dbs[Last.p].is_merging = 0
    /\ \E u \in dbs[Last.p].id_undo :
          /\ u.ul = 3 /\ <<u.ts, u.peer>> = <<dbs[Last.p].ts, dbs[Last.p].peer>>
          /\ ~\E e \in dbs[Last.p].idT["X"] : e.row = u.row

\* The statement of p moved the row r of the table t to the row handle h.
Rehandled(p, t, r, h) ==
    /\ Edited(p) /\ h # r.rowid
    /\ RowOf(dbs[p], t, r.rowid) # NullRow
    /\ ~\E q \in dbs[p].tbl[t] : q.rowid = h
    /\ dbs'[p].tbl[t] = (dbs[p].tbl[t] \ {r}) \cup {[r EXCEPT !.rowid = h]}

\* The mappings of the rows that S and T both map to a row handle
StillMapped(S, T, t) == {e \in S.idT[t] : \E f \in T.idT[t] : f.row = e.row}

\* C38: row-handle updates are local: a local update that changes only the
\* row handle of a row maps its row identity to the new handle and changes
\* nothing else, neither the logs nor the undo entries nor the clock nor the
\* context; and a replica that completes a pull keeps the row handles of
\* the rows that it had mapped.
C38_HandleIsLocal ==
    [][\A p \in Replicas : \A t \in TableSet : Present(p) =>
          /\ \A r \in dbs[p].tbl[t] : \A h \in 1..MaxHandle :
                Rehandled(p, t, r, h) =>
                   /\ RowOf(dbs'[p], t, h) = RowOf(dbs[p], t, r.rowid)
                   /\ Cardinality(dbs'[p].idT[t]) = Cardinality(dbs[p].idT[t])
                   /\ dbs'[p] = [dbs[p] EXCEPT !.tbl[t] = dbs'[p].tbl[t],
                                               !.idT[t] = dbs'[p].idT[t]]
          /\ PullDone(p, Other(p)) => StillMapped(dbs[p], dbs'[p], t) \subseteq dbs'[p].idT[t]]_vars

\* A replica completed a pull from a replica that had moved the only row
\* ever inserted into Y to the handle MaxHandle, and has the row under the
\* handle 1.
C38_Witness ==
    /\ hist # <<>> /\ Last.kind = "pull" /\ Last.ok
    /\ Cardinality({i \in dbs[Last.q].id : i.tbl = "Y"}) = 1
    /\ \E r \in dbs[Last.q].tbl["Y"] : \E s \in dbs[Last.p].tbl["Y"] :
          /\ r.rowid = MaxHandle /\ s.rowid = 1
          /\ RowOf(dbs[Last.q], "Y", r.rowid) = RowOf(dbs[Last.p], "Y", s.rowid)
          /\ RowOf(dbs[Last.q], "Y", r.rowid) # NullRow

\* The rows of rs reference one another in a cycle: two rows that reference
\* each other, or a row that references itself.
OnCycle(S, rs) ==
    \E r \in rs, q \in rs :
       /\ \E f \in S.fklog : f.row = r /\ f.frow = q
       /\ \E f \in S.fklog : f.row = q /\ f.frow = r

\* The table of the recursive select that is running, and the rows it can hold
CteTable(S) ==
    CASE S.cte = "restrict" -> S.restrict_refs
      [] S.cte = "dangling" -> S.dangling_refs
      [] OTHER -> S.cascade_refs

CteRange(S) ==
    IF S.cte \in {"restrict", "dangling"} THEN {i.row : i \in S.id} \cup {NullRow}
    ELSE {<<f.row, f.field>> : f \in S.fklog}

\* C39: every recursive select of the merge reaches its fix-point, whatever
\* the cycles of the references between the rows.  A round that does not end
\* its select adds a row to the table of the select, which only holds rows of
\* the database, so that the rounds of a select are no more than these rows;
\* and the table of a select that ended is the closure its rule uses.
C39_PullTerminates ==
    [][LET S == dbs["a"]
           T == dbs'["a"]
       IN /\ T.cte = S.cte =>
               /\ CteTable(S) \subseteq CteTable(T) /\ CteTable(T) # CteTable(S)
               /\ CteTable(T) \subseteq CteRange(T)
               /\ T.rounds <= Cardinality(CteRange(T))
          /\ S.cte = "restrict" /\ T.cte = "dangling" =>
               S.restrict_refs =
                  synql_restrict_refs(synql_fklog_effective(S, schema), restrict_init(S, schema))
          /\ S.cte = "dangling" /\ T.cte = "cascade" =>
               S.dangling_refs =
                  synql_dangling_refs(synql_fklog_effective(S, schema), dangling_init(S, schema))
          /\ S.cte = "cascade" /\ T.cte = "done" /\ S.uniqueness = synql_uniqueness =>
               S.cascade_refs = synql_cascade_refs(S, schema)]_vars

\* The three selects ended; rule B and the collection under ON UPDATE CASCADE
\* each met a cycle of rows, the second in more than one round.
C39_Witness ==
    /\ dbs["a"].cte = "done"
    /\ dbs["a"].rounds > 0
    /\ OnCycle(dbs["a"], dbs["a"].restrict_refs \ {NullRow})
    /\ OnCycle(dbs["a"], {c[1] : c \in dbs["a"].cascade_refs})

\* C40: on every replica whose last call returned, the local clock is at
\* least every entry of its context and at least the ts of every operation of
\* another peer that its shadow tables hold: the next operation of the
\* replica gets a ts above every ts that the replica has seen.
C40_ClockDominates ==
    \A p \in Replicas :
       Present(p) /\ "tables" \in dbs[p].installed /\ dbs[p].is_merging = 0 =>
          /\ \A q \in DOMAIN dbs[p].context : dbs[p].ts >= dbs[p].context[q]
          /\ \A s \in OpStamps(dbs[p]) : s[2] # dbs[p].peer => dbs[p].ts >= s[1]

====
